---------------------------- MODULE Spec2Model ----------------------------
(***************************************************************************)
(* Backtest journal: the trade notation parser (trade_analyzer.py,         *)
(* parse_trade_data), the CSV save/load pair (utils.py) and the            *)
(* performance aggregator (trade_analyzer.py, analyze_trades).             *)
(*                                                                         *)
(* Text is a sequence of one-character strings.  A Python float that was   *)
(* read from a short decimal literal is the decimal itself: the record     *)
(* [neg, mant, exp] stands for (-1)^neg * mant / 10^exp, with exp the      *)
(* number of fractional digits left after dropping trailing zeros.         *)
(***************************************************************************)
EXTENDS Integers, Sequences, FiniteSets, TLC

VARIABLES
    pc,           \* position of the operation under analysis
    trade_input,  \* the text handed to parse_trade_data
    parsed,       \* what parse_trade_data produced
    serialized,   \* the trades of parsed in the save format
    reparsed,     \* what parse_trade_data produced from serialized
    trades_data,  \* the day sequence handed to save_data
    csv_file,     \* the lines of the file save_data wrote
    loaded,       \* what load_data produced from csv_file
    \* analyze_trades: its parameters, the locals of its loop, its report;
    \* there trades_data holds the days the loop has consumed so far
    initial_balance, risk_amount,
    total_trades, total_wins, total_losses, total_breakeven,
    total_r_won, total_r_lost,
    daily_results,
    current_balance, peak_balance,
    equity_curve, daily_returns,
    current_win_streak, current_loss_streak, max_win_streak, max_loss_streak,
    day_of_week_performance, week_of_month_performance, month_performance,
    all_trade_r,
    results,
    \* the journal application: st.session_state beside trades_data, which
    \* there is the history on screen, and the tables of trading_data.db
    trading_rules,       \* st.session_state.trading_rules
    current_session_id,  \* st.session_state.current_session_id
    trading_sessions,    \* the rows of table trading_sessions
    trading_days,        \* the rows of table trading_days, in rowid order
    sqlite_sequence,     \* the AUTOINCREMENT counter of each table
    foreign_keys,        \* PRAGMA foreign_keys of a new connection
    returned             \* what the last call of a database function returned

parseVars == <<trade_input, parsed, serialized, reparsed>>

fileVars == <<csv_file, loaded>>

csvVars == <<trades_data, fileVars>>

configVars == <<initial_balance, risk_amount>>

loopVars ==
    <<total_trades, total_wins, total_losses, total_breakeven,
      total_r_won, total_r_lost, daily_results, current_balance, peak_balance,
      equity_curve, daily_returns, current_win_streak, current_loss_streak,
      max_win_streak, max_loss_streak, day_of_week_performance,
      week_of_month_performance, month_performance, all_trade_r>>

analyzeVars == <<configVars, loopVars, results>>

sessionVars == <<trading_rules, current_session_id>>

dbVars == <<trading_sessions, trading_days, sqlite_sequence, foreign_keys>>

journalVars == <<sessionVars, dbVars, returned>>

vars == <<pc, parseVars, csvVars, analyzeVars, journalVars>>

-----------------------------------------------------------------------------
(* Bounds of the model *)

MaxLen == 4

MaxFrac == 5

MaxDays == 3

MaxCsvDays == 2

-----------------------------------------------------------------------------
(* Characters and text *)

Digits == {"0", "1", "2", "3", "4", "5", "6", "7", "8", "9"}

DigitVal(c) ==
    CASE c = "0" -> 0 [] c = "1" -> 1 [] c = "2" -> 2 [] c = "3" -> 3
      [] c = "4" -> 4 [] c = "5" -> 5 [] c = "6" -> 6 [] c = "7" -> 7
      [] c = "8" -> 8 [] c = "9" -> 9

DigitChar(n) ==
    CASE n = 0 -> "0" [] n = 1 -> "1" [] n = 2 -> "2" [] n = 3 -> "3"
      [] n = 4 -> "4" [] n = 5 -> "5" [] n = 6 -> "6" [] n = 7 -> "7"
      [] n = 8 -> "8" [] n = 9 -> "9"

LowerLetters ==
    <<"a", "b", "c", "d", "e", "f", "g", "h", "i", "j", "k", "l", "m",
      "n", "o", "p", "q", "r", "s", "t", "u", "v", "w", "x", "y", "z">>

UpperLetters ==
    <<"A", "B", "C", "D", "E", "F", "G", "H", "I", "J", "K", "L", "M",
      "N", "O", "P", "Q", "R", "S", "T", "U", "V", "W", "X", "Y", "Z">>

\* the characters str.strip() removes from both ends
Whitespace == {" ", "\t", "\n", "\r", "\f"}

\* str.upper() on one character
UpperChar(c) ==
    IF \E i \in DOMAIN LowerLetters : LowerLetters[i] = c
    THEN UpperLetters[CHOOSE i \in DOMAIN LowerLetters : LowerLetters[i] = c]
    ELSE c

\* str.lower() on one character
LowerChar(c) ==
    IF \E i \in DOMAIN UpperLetters : UpperLetters[i] = c
    THEN LowerLetters[CHOOSE i \in DOMAIN UpperLetters : UpperLetters[i] = c]
    ELSE c

Upper(s) == [i \in DOMAIN s |-> UpperChar(s[i])]

Lower(s) == [i \in DOMAIN s |-> LowerChar(s[i])]

\* s.replace(c, "")
RECURSIVE RemoveChar(_, _)
RemoveChar(s, c) ==
    IF s = <<>> THEN <<>>
    ELSE IF Head(s) = c THEN RemoveChar(Tail(s), c)
         ELSE <<Head(s)>> \o RemoveChar(Tail(s), c)

\* s.split(c): the pieces between the separators, empty pieces included
RECURSIVE Split(_, _)
Split(s, c) ==
    IF \A i \in DOMAIN s : s[i] # c THEN <<s>>
    ELSE LET k == CHOOSE i \in DOMAIN s :
                      s[i] = c /\ \A j \in 1..(i - 1) : s[j] # c
         IN  <<SubSeq(s, 1, k - 1)>> \o Split(SubSeq(s, k + 1, Len(s)), c)

\* s.strip()
RECURSIVE LStrip(_)
LStrip(s) ==
    IF s # <<>> /\ Head(s) \in Whitespace THEN LStrip(Tail(s)) ELSE s

RECURSIVE RStrip(_)
RStrip(s) ==
    IF s # <<>> /\ s[Len(s)] \in Whitespace
    THEN RStrip(SubSeq(s, 1, Len(s) - 1))
    ELSE s

Strip(s) == RStrip(LStrip(s))

\* c.join(parts)
RECURSIVE Join(_, _)
Join(parts, c) ==
    IF parts = <<>> THEN <<>>
    ELSE IF Len(parts) = 1 THEN parts[1]
         ELSE parts[1] \o <<c>> \o Join(Tail(parts), c)

-----------------------------------------------------------------------------
(* Decimal numbers *)

RECURSIVE Pow10(_)
Pow10(n) == IF n = 0 THEN 1 ELSE 10 * Pow10(n - 1)

\* value of a digit string ("" is 0)
RECURSIVE DigitsToNat(_)
DigitsToNat(ds) ==
    IF ds = <<>> THEN 0
    ELSE 10 * DigitsToNat(SubSeq(ds, 1, Len(ds) - 1)) + DigitVal(ds[Len(ds)])

\* str(n) for a natural number
RECURSIVE NatToDigits(_)
NatToDigits(n) ==
    IF n < 10 THEN <<DigitChar(n)>>
    ELSE NatToDigits(n \div 10) \o <<DigitChar(n % 10)>>

\* length of the longest prefix of s made of digits
RECURSIVE DigitRun(_)
DigitRun(s) ==
    IF s # <<>> /\ Head(s) \in Digits THEN 1 + DigitRun(Tail(s)) ELSE 0

RECURSIVE DropTrailingZeros(_)
DropTrailingZeros(ds) ==
    IF ds # <<>> /\ ds[Len(ds)] = "0"
    THEN DropTrailingZeros(SubSeq(ds, 1, Len(ds) - 1))
    ELSE ds

Float(n, m, e) == [neg |-> n, mant |-> m, exp |-> e]

One == Float(FALSE, 1, 0)

Zero == Float(FALSE, 0, 0)

\* Python's == on two floats: the two zeros are equal
FloatEq(a, b) ==
    \/ a.mant = 0 /\ b.mant = 0
    \/ a = b

\* Python's x >= 0 on a float
FloatNonNeg(a) == a.mant = 0 \/ ~a.neg


-----------------------------------------------------------------------------
(* parse_trade_data *)

NoMatch == [matched |-> FALSE]

\* a pattern that lost its fractional part: ([WL])([-+]?\d*)R?
ReMatch_IntegerOnly(entry) ==
    IF entry = <<>> \/ entry[1] \notin {"W", "L"} THEN NoMatch
    ELSE LET rest == Tail(entry)
             s    == IF rest # <<>> /\ rest[1] \in {"-", "+"} THEN 1 ELSE 0
             d1   == DigitRun(SubSeq(rest, s + 1, Len(rest)))
         IN  [matched    |-> TRUE,
              trade_type |-> entry[1],
              r_str      |-> SubSeq(rest, 1, s + d1)]

\* re.match(r"([WL])([-+]?\d*\.?\d*)R?", entry): anchored at the start of the
\* entry only; every quantifier is greedy and nothing after [WL] is required,
\* so the groups are the kind letter and the longest sign/digits/dot/digits run
ReMatch(entry) ==
    IF entry = <<>> \/ entry[1] \notin {"W", "L"} THEN NoMatch
    ELSE LET rest == Tail(entry)
             s    == IF rest # <<>> /\ rest[1] \in {"-", "+"} THEN 1 ELSE 0
             a    == SubSeq(rest, s + 1, Len(rest))
             d1   == DigitRun(a)
             b    == SubSeq(a, d1 + 1, Len(a))
             p    == IF b # <<>> /\ b[1] = "." THEN 1 ELSE 0
             c    == SubSeq(b, p + 1, Len(b))
             d2   == DigitRun(c)
         IN  [matched    |-> TRUE,
              trade_type |-> entry[1],
              r_str      |-> SubSeq(rest, 1, s + d1 + p + d2)]

ValueError == [ok |-> FALSE]

\* float(r_str) on the texts group 2 of the pattern can hold: an optional
\* sign, digits, an optional dot, digits.  A text without any digit is not a
\* number and float raises ValueError.
PyFloat(r_str) ==
    LET s    == IF r_str # <<>> /\ r_str[1] \in {"-", "+"} THEN 1 ELSE 0
        body == SubSeq(r_str, s + 1, Len(r_str))
        d1   == DigitRun(body)
        b    == SubSeq(body, d1 + 1, Len(body))
        p    == IF b # <<>> /\ b[1] = "." THEN 1 ELSE 0
        c    == SubSeq(b, p + 1, Len(b))
        d2   == DigitRun(c)
        fp   == DropTrailingZeros(SubSeq(c, 1, d2))
    IN  IF d1 + d2 = 0 \/ p + d2 # Len(b) THEN ValueError
        ELSE [ok  |-> TRUE,
              val |-> Float(s = 1 /\ r_str[1] = "-",
                            DigitsToNat(SubSeq(body, 1, d1) \o fp),
                            Len(fp))]

Trade(t, r) == [type |-> t, r_multiple |-> r]

\* the three ways a call of parse_trade_data ends
Returned(trades) == [status |-> "list", trades |-> trades]

ReturnedNone == [status |-> "None"]

Raised == [status |-> "ValueError"]

\* the loop over the entries (lines 22-52)
RECURSIVE ParseEntries(_, _)
ParseEntries(trade_entries, trades) ==
    IF trade_entries = <<>> THEN Returned(trades)
    ELSE LET entry == Upper(Strip(Head(trade_entries)))
             more  == Tail(trade_entries)
         IN  IF entry = <<>> THEN ParseEntries(more, trades)
             ELSE IF entry = <<"B", "E">>
                  THEN ParseEntries(more, Append(trades, Trade("BE", Zero)))
             ELSE LET match == ReMatch(entry)
                  IN  IF ~match.matched THEN ReturnedNone
                      ELSE IF match.r_str = <<>>
                           THEN ParseEntries(more,
                                    Append(trades, Trade(match.trade_type, One)))
                      ELSE LET f == PyFloat(match.r_str)
                           IN  IF ~f.ok THEN Raised
                               ELSE ParseEntries(more,
                                        Append(trades,
                                               Trade(match.trade_type, f.val)))

parse_trade_data(text) == ParseEntries(Split(RemoveChar(text, " "), ","), <<>>)

-----------------------------------------------------------------------------
(* Specification Spec: parse_trade_data on every text of at most MaxLen    *)
(* characters over ParseAlphabet                                           *)

ParseAlphabet == {"W", "w", "L", "B", "E", "R", "2", ".", "-", ",", " ", "\t"}

RECURSIVE Texts(_, _)
Texts(alphabet, n) ==
    IF n = 0 THEN {<<>>}
    ELSE LET shorter == Texts(alphabet, n - 1)
         IN  shorter \cup {Append(t, c) : t \in shorter, c \in alphabet}

NotRun == [status |-> "not run"]

\* Python's None in a field that otherwise holds a number: no week, no
\* month, no session
None == -1

\* the variables of the journal application, while it is not running: no
\* rule, no session, the empty tables init_db creates
JournalIdle ==
    /\ trading_rules = <<>>
    /\ current_session_id = None
    /\ trading_sessions = <<>>
    /\ trading_days = <<>>
    /\ sqlite_sequence = [trading_sessions |-> 0, trading_days |-> 0]
    /\ foreign_keys = FALSE
    /\ returned = NotRun

\* the variables of the CSV pair, while no file is written or read
FileIdle ==
    /\ csv_file = <<>>
    /\ loaded = NotRun

\* the variables of analyze_trades, while it is not called
AnalyzeIdle ==
    /\ initial_balance = 0 /\ risk_amount = 0
    /\ total_trades = 0 /\ total_wins = 0 /\ total_losses = 0
    /\ total_breakeven = 0 /\ total_r_won = 0 /\ total_r_lost = 0
    /\ daily_results = <<>>
    /\ current_balance = 0 /\ peak_balance = 0
    /\ equity_curve = <<>> /\ daily_returns = <<>>
    /\ current_win_streak = 0 /\ current_loss_streak = 0
    /\ max_win_streak = 0 /\ max_loss_streak = 0
    /\ day_of_week_performance = <<>>
    /\ week_of_month_performance = <<>>
    /\ month_performance = <<>>
    /\ all_trade_r = <<>>
    /\ results = NotRun

Init ==
    /\ pc = "start"
    /\ trade_input \in Texts(ParseAlphabet, MaxLen)
    /\ parsed = NotRun
    /\ serialized = <<>>
    /\ reparsed = NotRun
    /\ trades_data = <<>>
    /\ FileIdle
    /\ AnalyzeIdle
    /\ JournalIdle

Parse ==
    /\ pc = "start"
    /\ parsed' = parse_trade_data(trade_input)
    /\ pc' = "done"
    /\ UNCHANGED <<trade_input, serialized, reparsed, csvVars, analyzeVars,
                 journalVars>>

Next == Parse

Spec == Init /\ [][Next]_vars

-----------------------------------------------------------------------------
(* The notation of the specification, stated apart from the parser: a      *)
(* token is BE, or W or L, an optional signed decimal number, an optional  *)
(* R.  A number has at least one digit.                                    *)

AllDigits(t) == \A i \in DOMAIN t : t[i] \in Digits

IsSignedDecimal(t) ==
    \E a \in 0..1, k \in 0..Len(t) :
        /\ a <= k
        /\ a = 1 => t[1] \in {"-", "+"}
        /\ AllDigits(SubSeq(t, a + 1, k))
        /\ \/ k = Len(t)
           \/ t[k + 1] = "." /\ AllDigits(SubSeq(t, k + 2, Len(t)))
        /\ \E i \in DOMAIN t : t[i] \in Digits

\* the text between the kind letter and the optional trailing R
NumberText(tok) ==
    IF tok[Len(tok)] = "R" THEN SubSeq(tok, 2, Len(tok) - 1)
    ELSE SubSeq(tok, 2, Len(tok))

ValidToken(tok) ==
    \/ tok = <<"B", "E">>
    \/ /\ tok # <<>>
       /\ tok[1] \in {"W", "L"}
       /\ NumberText(tok) = <<>> \/ IsSignedDecimal(NumberText(tok))

\* the value a signed decimal number denotes
DecimalValue(t) ==
    LET unsigned == IF t[1] \in {"-", "+"} THEN Tail(t) ELSE t
        point    == IF \E i \in DOMAIN unsigned : unsigned[i] = "."
                    THEN CHOOSE i \in DOMAIN unsigned : unsigned[i] = "."
                    ELSE Len(unsigned) + 1
        whole    == SubSeq(unsigned, 1, point - 1)
        fraction == DropTrailingZeros(SubSeq(unsigned, point + 1, Len(unsigned)))
    IN  Float(t[1] = "-", DigitsToNat(whole \o fraction), Len(fraction))

\* the outcome the notation assigns to one valid token
TokenOutcome(tok) ==
    IF tok = <<"B", "E">> THEN Trade("BE", Zero)
    ELSE IF NumberText(tok) = <<>> THEN Trade(tok[1], One)
    ELSE Trade(tok[1], DecimalValue(NumberText(tok)))

\* the comma-separated tokens of a text, blanks dropped, letters folded to
\* upper case, empty tokens left out
NotationTokens(text) ==
    LET pieces == Split(Upper(RemoveChar(text, " ")), ",")
    IN  SelectSeq(pieces, LAMBDA t : t # <<>>)

\* the tokens of a text once all of its whitespace is removed
RECURSIVE RemoveWhitespace(_)
RemoveWhitespace(s) ==
    IF s = <<>> THEN <<>>
    ELSE IF Head(s) \in Whitespace THEN RemoveWhitespace(Tail(s))
         ELSE <<Head(s)>> \o RemoveWhitespace(Tail(s))

CleanTokens(text) ==
    LET pieces == Split(Upper(RemoveWhitespace(text)), ",")
    IN  SelectSeq(pieces, LAMBDA t : t # <<>>)

-----------------------------------------------------------------------------
(* Claims about parse_trade_data, checked under Spec *)

\* C1: whenever a non-empty token of the input is neither BE nor a complete
\* match of W or L, an optional signed decimal number and an optional R, the
\* parse fails for the whole input and returns no trade list.
C1_MalformedTokenRejected ==
    (/\ pc = "done"
     /\ \E i \in DOMAIN CleanTokens(trade_input) :
            ~ValidToken(CleanTokens(trade_input)[i]))
        => parsed.status # "list"

\* C2: every outcome parse_trade_data returns has r_multiple >= 0, also for
\* a token with an explicitly signed number.
C2_MagnitudeNonNegative ==
    (pc = "done" /\ parsed.status = "list")
        => \A i \in DOMAIN parsed.trades :
               FloatNonNeg(parsed.trades[i].r_multiple)

\* C3: when every non-empty token of the input is valid, parse_trade_data
\* returns exactly one outcome per non-empty token, in token order: BE gives
\* BE with magnitude 0, W or L with a number gives that kind and number, W or
\* L without a number gives magnitude 1.0; empty tokens add nothing.
C3_OneOutcomePerToken ==
    (/\ pc = "done"
     /\ \A i \in DOMAIN NotationTokens(trade_input) :
            ValidToken(NotationTokens(trade_input)[i]))
        => parsed = Returned([i \in DOMAIN NotationTokens(trade_input) |->
                                  TokenOutcome(NotationTokens(trade_input)[i])])

\* C3 witness: two valid tokens, one with a number and one without, and an
\* empty token between two commas, parsed into two outcomes
C3_Witness ==
    /\ pc = "done"
    /\ Len(Split(trade_input, ",")) = 3
    /\ Len(NotationTokens(trade_input)) = 2
    /\ \A i \in 1..2 : ValidToken(NotationTokens(trade_input)[i])
    /\ parsed.status = "list"
    /\ Len(parsed.trades) = 2

\* C4: removing the whitespace of the input, or changing the case of its
\* letters, does not change what parse_trade_data produces.
C4_WhitespaceCaseInsensitive ==
    pc = "done"
        => /\ parsed = parse_trade_data(RemoveWhitespace(trade_input))
           /\ parsed = parse_trade_data(Upper(trade_input))
           /\ parsed = parse_trade_data(Lower(trade_input))

-----------------------------------------------------------------------------
(* The save format of utils.save_data and str() of a float *)

\* the digits of n, zero-padded on the left to width w
RECURSIVE PadLeft(_, _)
PadLeft(ds, w) == IF Len(ds) >= w THEN ds ELSE PadLeft(<<"0">> \o ds, w)

\* str(x) for a float x (the f-string of utils.py line 32): the shortest
\* digits that read back as x, in positional notation when the decimal point
\* falls within -4 < decpt <= 16 and in exponent notation otherwise
FloatStr(x) ==
    LET sign  == IF x.neg THEN <<"-">> ELSE <<>>
        digs  == NatToDigits(x.mant)
        decpt == Len(digs) - x.exp
        sig   == DropTrailingZeros(digs)
        e10   == decpt - 1
        fixed == IF x.exp = 0 THEN digs \o <<".", "0">>
                 ELSE NatToDigits(x.mant \div Pow10(x.exp)) \o <<".">>
                      \o PadLeft(NatToDigits(x.mant % Pow10(x.exp)), x.exp)
        sci   == <<sig[1]>>
                 \o (IF Len(sig) > 1 THEN <<".">> \o Tail(sig) ELSE <<>>)
                 \o <<"e", IF e10 < 0 THEN "-" ELSE "+">>
                 \o PadLeft(NatToDigits(IF e10 < 0 THEN -e10 ELSE e10), 2)
    IN  IF x.mant = 0 THEN sign \o <<"0", ".", "0">>
        ELSE IF decpt > 16 \/ decpt < -3 THEN sign \o sci
        ELSE sign \o fixed

\* utils.py lines 29-32: one trade in the save format
TradeString(trade) ==
    IF trade.type = "BE" THEN <<"B", "E">>
    ELSE <<trade.type>> \o FloatStr(trade.r_multiple) \o <<"R">>

\* utils.py lines 27-34: the Trades column of one day
TradesStr(trades) ==
    Join([i \in DOMAIN trades |-> TradeString(trades[i])], ",")

\* Python's == on two trade dicts and on two lists of them
TradeEq(a, b) == a.type = b.type /\ FloatEq(a.r_multiple, b.r_multiple)

TradesEq(a, b) ==
    Len(a) = Len(b) /\ \A i \in DOMAIN a : TradeEq(a[i], b[i])

-----------------------------------------------------------------------------
(* Specification SpecRoundTrip: parse a valid text, write its outcomes in  *)
(* the save format, parse that text again                                  *)

Fractions == {<<>>} \cup {<<".">> \o f : f \in Texts({"0", "5"}, MaxFrac)}

\* valid tokens: a kind, an optional sign, an optional whole digit, an
\* optional fraction of at most MaxFrac digits, an optional R
RoundTripTokens ==
    {t \in {<<k>> \o sg \o w \o f \o r :
                k \in {"W", "L"}, sg \in {<<>>, <<"-">>},
                w \in {<<>>, <<"0">>, <<"2">>}, f \in Fractions,
                r \in {<<>>, <<"R">>}} : ValidToken(t)}

RoundTripInputs ==
    RoundTripTokens \cup {<<"B", "E", ",">> \o t : t \in RoundTripTokens}

InitRoundTrip ==
    /\ pc = "start"
    /\ trade_input \in RoundTripInputs
    /\ parsed = NotRun
    /\ serialized = <<>>
    /\ reparsed = NotRun
    /\ trades_data = <<>>
    /\ FileIdle
    /\ AnalyzeIdle
    /\ JournalIdle

Serialize ==
    /\ pc = "done"
    /\ parsed.status = "list"
    /\ serialized' = TradesStr(parsed.trades)
    /\ pc' = "serialized"
    /\ UNCHANGED <<trade_input, parsed, reparsed, csvVars, analyzeVars,
                 journalVars>>

Reparse ==
    /\ pc = "serialized"
    /\ reparsed' = parse_trade_data(serialized)
    /\ pc' = "reparsed"
    /\ UNCHANGED <<trade_input, parsed, serialized, csvVars, analyzeVars,
                 journalVars>>

NextRoundTrip == Parse \/ Serialize \/ Reparse

SpecRoundTrip == InitRoundTrip /\ [][NextRoundTrip]_vars

\* C5: for every valid input s, writing parse_trade_data(s) in the save
\* format and parsing that text again yields a list equal to
\* parse_trade_data(s).
C5_ParseSerializeRoundTrip ==
    pc = "reparsed"
        => /\ reparsed.status = "list"
           /\ TradesEq(reparsed.trades, parsed.trades)

-----------------------------------------------------------------------------
(* utils.save_data and utils.load_data over the csv module *)

\* str(n) for an int
IntStr(n) == IF n < 0 THEN <<"-">> \o NatToDigits(-n) ELSE NatToDigits(n)

\* int(text) on a decimal literal; any other text raises ValueError
PyInt(text) ==
    LET s    == IF text # <<>> /\ text[1] \in {"-", "+"} THEN 1 ELSE 0
        body == SubSeq(text, s + 1, Len(text))
    IN  IF body = <<>> \/ ~(\A i \in DOMAIN body : body[i] \in Digits)
        THEN ValueError
        ELSE [ok  |-> TRUE,
              val |-> IF s = 1 /\ text[1] = "-" THEN -DigitsToNat(body)
                      ELSE DigitsToNat(body)]

\* date.strftime("%Y-%m-%d"), the date text of a day record
StrfDate(y, m, d) ==
    PadLeft(NatToDigits(y), 4) \o <<"-">> \o PadLeft(NatToDigits(m), 2)
        \o <<"-">> \o PadLeft(NatToDigits(d), 2)

DayRecord(n, date, trades) == [day |-> n, date |-> date, trades |-> trades]

\* csv.writer, excel dialect: a field holding the delimiter, the quote
\* character or a line break is quoted, quotes inside it doubled
RECURSIVE DoubleQuotes(_)
DoubleQuotes(f) ==
    IF f = <<>> THEN <<>>
    ELSE IF Head(f) = "\"" THEN <<"\"", "\"">> \o DoubleQuotes(Tail(f))
         ELSE <<Head(f)>> \o DoubleQuotes(Tail(f))

CsvField(f) ==
    IF \E i \in DOMAIN f : f[i] \in {",", "\"", "\r", "\n"}
    THEN <<"\"">> \o DoubleQuotes(f) \o <<"\"">>
    ELSE f

\* writer.writerow(fields): one line of the file, without its terminator
WriteRow(fields) == Join([i \in DOMAIN fields |-> CsvField(fields[i])], ",")

\* csv.reader on one line: the fields, quotes removed, from position i on,
\* cur being the field read so far and inq telling whether a quote is open
RECURSIVE ReadFields(_, _, _, _)
ReadFields(line, i, inq, cur) ==
    IF i > Len(line) THEN <<cur>>
    ELSE IF inq
         THEN IF line[i] = "\""
              THEN IF i < Len(line) /\ line[i + 1] = "\""
                   THEN ReadFields(line, i + 2, TRUE, Append(cur, "\""))
                   ELSE ReadFields(line, i + 1, FALSE, cur)
              ELSE ReadFields(line, i + 1, TRUE, Append(cur, line[i]))
         ELSE IF line[i] = ","
              THEN <<cur>> \o ReadFields(line, i + 1, FALSE, <<>>)
              ELSE IF line[i] = "\"" /\ cur = <<>>
                   THEN ReadFields(line, i + 1, TRUE, cur)
                   ELSE ReadFields(line, i + 1, FALSE, Append(cur, line[i]))

ReadRow(line) == IF line = <<>> THEN <<>> ELSE ReadFields(line, 1, FALSE, <<>>)

HeaderRow == <<<<"D", "a", "y">>, <<"D", "a", "t", "e">>,
               <<"T", "r", "a", "d", "e", "s">>>>

\* utils.save_data: the header and one row per day
save_data(days) ==
    <<WriteRow(HeaderRow)>>
        \o [i \in DOMAIN days |->
                WriteRow(<<IntStr(days[i].day), days[i].date,
                           TradesStr(days[i].trades)>>)]

LoadedDays(days) == [status |-> "list", days |-> days]

LoadedNone == [status |-> "None"]

\* the loop of utils.load_data over the rows after the header (lines 62-78);
\* an exception of parse_trade_data or int ends the call in the except branch
RECURSIVE LoadRows(_, _)
LoadRows(lines, days) ==
    IF lines = <<>> THEN LoadedDays(days)
    ELSE LET row == ReadRow(Head(lines))
         IN  IF Len(row) # 3 THEN LoadRows(Tail(lines), days)
             ELSE LET trades == parse_trade_data(row[3])
                  IN  IF trades.status = "ValueError" THEN LoadedNone
                      ELSE IF trades.status = "list" /\ trades.trades # <<>>
                           THEN IF ~PyInt(row[1]).ok THEN LoadedNone
                                ELSE LoadRows(Tail(lines),
                                         Append(days,
                                                DayRecord(PyInt(row[1]).val,
                                                          row[2],
                                                          trades.trades)))
                      ELSE LoadRows(Tail(lines), days)

\* utils.load_data: next(reader) on a file without a header line raises
load_data(lines) ==
    IF lines = <<>> THEN LoadedNone ELSE LoadRows(Tail(lines), <<>>)

-----------------------------------------------------------------------------
(* Specification SpecCsv: save a day sequence, load the file back *)

CsvTradeLists ==
    { <<>>,
      <<Trade("BE", Zero)>>,
      <<Trade("W", Float(FALSE, 2, 0))>>,
      <<Trade("L", Float(FALSE, 15, 1)), Trade("BE", Zero)>>,
      <<Trade("W", Float(FALSE, 5, 5))>> }

CsvDays ==
    { DayRecord(n, date, trades) :
        n \in {1, 2, 10},
        date \in {StrfDate(2024, 3, 15), StrfDate(2024, 12, 2)},
        trades \in CsvTradeLists }

RECURSIVE SeqsUpTo(_, _)
SeqsUpTo(S, n) ==
    IF n = 0 THEN {<<>>}
    ELSE LET shorter == SeqsUpTo(S, n - 1)
         IN  shorter \cup {Append(q, x) : q \in shorter, x \in S}

\* the variables of the parser, while no text is parsed
ParseIdle ==
    /\ trade_input = <<>>
    /\ parsed = NotRun
    /\ serialized = <<>>
    /\ reparsed = NotRun

InitCsv ==
    /\ pc = "start"
    /\ trades_data \in SeqsUpTo(CsvDays, MaxCsvDays)
    /\ csv_file = <<>>
    /\ loaded = NotRun
    /\ ParseIdle
    /\ AnalyzeIdle
    /\ JournalIdle

SaveData ==
    /\ pc = "start"
    /\ csv_file' = save_data(trades_data)
    /\ pc' = "saved"
    /\ UNCHANGED <<trades_data, loaded, parseVars, analyzeVars, journalVars>>

LoadData ==
    /\ pc = "saved"
    /\ loaded' = load_data(csv_file)
    /\ pc' = "loaded"
    /\ UNCHANGED <<trades_data, csv_file, parseVars, analyzeVars, journalVars>>

NextCsv == SaveData \/ LoadData

SpecCsv == InitCsv /\ [][NextCsv]_vars

DayEq(a, b) ==
    a.day = b.day /\ a.date = b.date /\ TradesEq(a.trades, b.trades)

\* C6: load_data applied to the file save_data wrote returns the same days:
\* same length, order, day numbers, dates and trade lists, a day with an
\* empty trade list included.
C6_CsvRoundTrip ==
    pc = "loaded"
        => /\ loaded.status = "list"
           /\ Len(loaded.days) = Len(trades_data)
           /\ \A i \in DOMAIN trades_data : DayEq(loaded.days[i], trades_data[i])

-----------------------------------------------------------------------------
(* Numbers of analyze_trades.  The aggregator's floats are modelled by the *)
(* rationals they approximate: [n, d] with d > 0 in lowest terms.          *)
(* float('inf') is the pair with d = 0.  The samples of the Sharpe ratio   *)
(* and of the SQN are kept as the floats themselves (binary64 below): the  *)
(* nearest float of a decimal literal and of a quotient of two integers.   *)

Abs(x) == IF x < 0 THEN -x ELSE x

RECURSIVE GCD(_, _)
GCD(a, b) == IF b = 0 THEN a ELSE GCD(b, a % b)

Rat(n, d) ==
    LET g == GCD(Abs(n), Abs(d))
        s == IF d < 0 THEN -1 ELSE 1
    IN  [n |-> (s * n) \div g, d |-> (s * d) \div g]

RInt(k) == [n |-> k, d |-> 1]

Infinity == [n |-> 1, d |-> 0]

RAdd(a, b) == Rat(a.n * b.d + b.n * a.d, a.d * b.d)

RSub(a, b) == Rat(a.n * b.d - b.n * a.d, a.d * b.d)

RMul(a, b) == Rat(a.n * b.n, a.d * b.d)

RDiv(a, b) == Rat(a.n * b.d, a.d * b.n)

RGt(a, b) == a.n * b.d > b.n * a.d

RNeg(a) == [n |-> -a.n, d |-> a.d]

\* the number a parsed r_multiple stands for
ToRat(x) == Rat(IF x.neg THEN -x.mant ELSE x.mant, Pow10(x.exp))

\* sum(seq) over numbers
RECURSIVE RSum(_)
RSum(q) == IF q = <<>> THEN RInt(0) ELSE RAdd(Head(q), RSum(Tail(q)))

\* sum(results) / len(results)
Mean(q) == RDiv(RSum(q), RInt(Len(q)))

-----------------------------------------------------------------------------
(* Calendar fields of a day (trade_analyzer.py lines 107-125) *)

IsLeap(y) == y % 4 = 0 /\ (y % 100 # 0 \/ y % 400 = 0)

DaysInMonth(y, m) ==
    IF m = 2 THEN (IF IsLeap(y) THEN 29 ELSE 28)
    ELSE IF m \in {4, 6, 9, 11} THEN 30 ELSE 31

RECURSIVE DaysBeforeMonth(_, _)
DaysBeforeMonth(y, m) ==
    IF m = 1 THEN 0 ELSE DaysBeforeMonth(y, m - 1) + DaysInMonth(y, m - 1)

\* date.toordinal(): 1 for Monday, 1 January of year 1
Ordinal(y, m, d) ==
    (y - 1) * 365 + (y - 1) \div 4 - (y - 1) \div 100 + (y - 1) \div 400
        + DaysBeforeMonth(y, m) + d

\* date.weekday(): Monday is 0
Weekday(y, m, d) == (Ordinal(y, m, d) + 6) % 7

DayNames == <<"Monday", "Tuesday", "Wednesday", "Thursday", "Friday",
              "Saturday", "Sunday">>

NotADate == [ok |-> FALSE]

\* datetime.strptime(day_date, "%Y-%m-%d"): four digits, one or two digits
\* for a month 1..12, one or two digits for a day 1..31, and the day must
\* exist in that month; anything else raises ValueError
Strptime(text) ==
    LET parts == Split(text, "-")
    IN  IF Len(parts) # 3 THEN NotADate
        ELSE IF \/ Len(parts[1]) # 4 \/ ~(\A i \in 1..4 : parts[1][i] \in Digits)
                \/ Len(parts[2]) \notin {1, 2}
                \/ ~(\A i \in DOMAIN parts[2] : parts[2][i] \in Digits)
                \/ Len(parts[3]) \notin {1, 2}
                \/ ~(\A i \in DOMAIN parts[3] : parts[3][i] \in Digits)
             THEN NotADate
        ELSE LET y == DigitsToNat(parts[1])
                 m == DigitsToNat(parts[2])
                 d == DigitsToNat(parts[3])
             IN  IF y < 1 \/ m \notin 1..12 \/ d < 1 THEN NotADate
                 ELSE IF d > DaysInMonth(y, m) THEN NotADate
                 ELSE [ok |-> TRUE, year |-> y, month |-> m, day |-> d]

\* calendar fields that fall back on the first Monday of January for a text
\* that is no date
CalendarFields_DefaultDate(day_date) ==
    LET date_obj == Strptime(day_date)
    IN  IF ~date_obj.ok
        THEN [day_of_week |-> "Monday", month |-> 1, week_of_month |-> 1]
        ELSE LET first_day    == Weekday(date_obj.year, date_obj.month, 1)
                 adjusted_dom == date_obj.day + first_day
             IN  [day_of_week |->
                      DayNames[Weekday(date_obj.year, date_obj.month,
                                       date_obj.day) + 1],
                  month |-> date_obj.month,
                  week_of_month |-> (adjusted_dom - 1) \div 7 + 1]

\* lines 108-125: day_of_week, month and week_of_month of a date text
CalendarFields(day_date) ==
    LET date_obj == Strptime(day_date)
    IN  IF ~date_obj.ok
        THEN [day_of_week |-> "Unknown", month |-> None, week_of_month |-> None]
        ELSE LET first_day    == Weekday(date_obj.year, date_obj.month, 1)
                 adjusted_dom == date_obj.day + first_day
             IN  [day_of_week |->
                      DayNames[Weekday(date_obj.year, date_obj.month,
                                       date_obj.day) + 1],
                  month |-> date_obj.month,
                  week_of_month |-> (adjusted_dom - 1) \div 7 + 1]

-----------------------------------------------------------------------------
(* IEEE 754 binary64, the arithmetic of a Python float, for the places     *)
(* where analyze_trades decides on the result of a rounded operation.  A   *)
(* natural number is its sequence of digits in base 2^15, lowest digit     *)
(* first, without leading zeros.  A finite float is [neg, mant, exp], the  *)
(* value (-1)^neg * mant * 2^exp with mant a natural of exactly 53 bits;   *)
(* zero has the empty mant.  Subnormal numbers and infinities are not      *)
(* represented: the operations below are used on zero and on values of     *)
(* magnitude between 2^-100 and 2^1000, where a difference that is not     *)
(* zero has a square that is not zero.                                     *)

LimbBits == 15

Base == 2 ^ LimbBits

\* digit i of a natural, 0 outside its length
Limb(a, i) == IF i \in DOMAIN a THEN a[i] ELSE 0

\* drop the leading zeros
LNorm(a) ==
    IF \A i \in DOMAIN a : a[i] = 0 THEN <<>>
    ELSE SubSeq(a, 1, CHOOSE i \in DOMAIN a :
                          a[i] # 0 /\ \A j \in (i + 1)..Len(a) : a[j] = 0)

\* the digits of a natural number below 2^31
LFromNat(n) == LNorm(<<n % Base, (n \div Base) % Base, n \div (Base * Base)>>)

\* the number of bits of a natural
BitLen(a) ==
    IF a = <<>> THEN 0
    ELSE LimbBits * (Len(a) - 1)
             + (CHOOSE k \in 1..LimbBits :
                    2 ^ (k - 1) <= a[Len(a)] /\ a[Len(a)] < 2 ^ k)

\* bit k of a natural, the lowest bit being bit 1
BitAt(a, k) ==
    (Limb(a, (k - 1) \div LimbBits + 1) \div 2 ^ ((k - 1) % LimbBits)) % 2

\* a * 2^k
LShl(a, k) ==
    LET b == k % LimbBits
    IN  LNorm([i \in 1..(k \div LimbBits) |-> 0]
                  \o [i \in 1..(Len(a) + 1) |->
                         (Limb(a, i) % 2 ^ (LimbBits - b)) * 2 ^ b
                             + Limb(a, i - 1) \div 2 ^ (LimbBits - b)])

\* a \div 2^k
LShr(a, k) ==
    LET b == k % LimbBits
        h == SubSeq(a, k \div LimbBits + 1, Len(a))
    IN  LNorm([i \in DOMAIN h |->
                  h[i] \div 2 ^ b + (Limb(h, i + 1) % 2 ^ b) * 2 ^ (LimbBits - b)])

\* a % 2^k # 0
LowBits(a, k) ==
    \/ \E i \in 1..(k \div LimbBits) : Limb(a, i) # 0
    \/ Limb(a, k \div LimbBits + 1) % 2 ^ (k % LimbBits) # 0

\* a + b + carry, from digit i upwards
RECURSIVE LAddFrom(_, _, _, _)
LAddFrom(a, b, i, carry) ==
    IF i > Len(a) /\ i > Len(b) THEN <<carry>>
    ELSE LET t == Limb(a, i) + Limb(b, i) + carry
         IN  <<t % Base>> \o LAddFrom(a, b, i + 1, t \div Base)

LAdd(a, b) == LNorm(LAddFrom(a, b, 1, 0))

\* a - b - borrow, from digit i upwards, for a >= b
RECURSIVE LSubFrom(_, _, _, _)
LSubFrom(a, b, i, borrow) ==
    IF i > Len(a) THEN <<>>
    ELSE LET t == Limb(a, i) - Limb(b, i) - borrow
         IN  <<t % Base>> \o LSubFrom(a, b, i + 1, IF t < 0 THEN 1 ELSE 0)

LSub(a, b) == LNorm(LSubFrom(a, b, 1, 0))

\* a < b
LLess(a, b) ==
    \/ Len(a) < Len(b)
    \/ /\ Len(a) = Len(b)
       /\ \E i \in DOMAIN a :
              /\ a[i] < b[i]
              /\ \A j \in (i + 1)..Len(a) : a[j] = b[j]

\* long division of the digits 1..i of a below a remainder, by a natural
\* 0 < n <= 2^16: the quotient and the remainder
RECURSIVE LDivFrom(_, _, _, _)
LDivFrom(a, i, n, rem) ==
    IF i = 0 THEN [q |-> <<>>, rem |-> rem]
    ELSE LET r    == Base * rem + a[i]
             rest == LDivFrom(a, i - 1, n, r % n)
         IN  [q |-> Append(rest.q, r \div n), rem |-> rest.rem]

LDiv(a, n) ==
    LET d == LDivFrom(a, Len(a), n, 0) IN [q |-> LNorm(d.q), rem |-> d.rem]

MantBits == 53

FZero == [neg |-> FALSE, mant |-> <<>>, exp |-> 0]

\* round to nearest, ties to even: the float nearest to
\* (-1)^neg * (m + t) * 2^e, where 0 <= t < 1 and t > 0 exactly if sticky;
\* a sticky m has more than MantBits bits
FRound(neg, m, e, sticky) ==
    IF m = <<>> THEN FZero
    ELSE IF BitLen(m) <= MantBits
    THEN [neg |-> neg, mant |-> LShl(m, MantBits - BitLen(m)),
          exp |-> e - (MantBits - BitLen(m))]
    ELSE LET k    == BitLen(m) - MantBits
             kept == LShr(m, k)
             rest == sticky \/ LowBits(m, k - 1)
             up   == BitAt(m, k) = 1 /\ (rest \/ kept[1] % 2 = 1)
             r    == IF up THEN LAdd(kept, <<1>>) ELSE kept
         IN  IF BitLen(r) > MantBits
             THEN [neg |-> neg, mant |-> LShr(r, 1), exp |-> e + k + 1]
             ELSE [neg |-> neg, mant |-> r, exp |-> e + k]

FNeg(x) == IF x.mant = <<>> THEN x ELSE [x EXCEPT !.neg = ~x.neg]

\* x + y.  An operand below a quarter of the last place of the other one
\* does not change the rounded sum.
FAdd(x, y) ==
    IF x.mant = <<>> THEN y
    ELSE IF y.mant = <<>> THEN x
    ELSE IF x.exp - y.exp >= MantBits + 2 THEN x
    ELSE IF y.exp - x.exp >= MantBits + 2 THEN y
    ELSE LET e  == IF x.exp < y.exp THEN x.exp ELSE y.exp
             mx == LShl(x.mant, x.exp - e)
             my == LShl(y.mant, y.exp - e)
         IN  IF x.neg = y.neg THEN FRound(x.neg, LAdd(mx, my), e, FALSE)
             ELSE IF LLess(mx, my) THEN FRound(y.neg, LSub(my, mx), e, FALSE)
             ELSE FRound(x.neg, LSub(mx, my), e, FALSE)

\* x - y
FSub(x, y) == FAdd(x, FNeg(y))

GuardBits == 20

\* x / n for an int 0 < n <= 2^16, which the division turns into a float
FDivInt(x, n) ==
    LET d == LDiv(LShl(x.mant, GuardBits), n)
    IN  FRound(x.neg, d.q, x.exp - GuardBits, d.rem # 0)

\* the float nearest to the rational n / d, 0 < d <= 2^16: the float of a
\* decimal literal, and the quotient of two floats that hold integers
FromRat(r) ==
    IF r.d = 1 THEN FRound(r.n < 0, LFromNat(Abs(r.n)), 0, FALSE)
    ELSE LET d == LDiv(LShl(LFromNat(Abs(r.n)), MantBits + GuardBits), r.d)
         IN  FRound(r.n < 0, d.q, -(MantBits + GuardBits), d.rem # 0)

\* the float 2^k
FPow2(k) == [neg |-> FALSE, mant |-> LShl(<<1>>, MantBits - 1),
             exp |-> k - (MantBits - 1)]

OverflowExponent == 512

\* x ** 2 raises OverflowError when the rounded square is not below 2^1024.
\* The greatest float below 2^512 has a square below 2^1024 - 2^970, which
\* rounds to a finite float, so x ** 2 raises exactly for |x| >= 2^512.
FSquareOverflows(x) == x.mant # <<>> /\ x.exp + MantBits > OverflowExponent

\* (x - y) ** 2 raises OverflowError; the difference of two floats below
\* 2^511 is below 2^512
FSquaredDifferenceOverflows(x, y) ==
    /\ \/ x.exp + MantBits >= OverflowExponent
       \/ y.exp + MantBits >= OverflowExponent
    /\ FSquareOverflows(FSub(x, y))

\* sum(samples): left to right from the int 0
RECURSIVE FSumFrom(_, _)
FSumFrom(acc, samples) ==
    IF samples = <<>> THEN acc
    ELSE FSumFrom(FAdd(acc, Head(samples)), Tail(samples))

FSum(samples) == FSumFrom(FZero, samples)

-----------------------------------------------------------------------------
(* The per-day quantities of analyze_trades (lines 131-158) *)

\* a count that takes a break-even trade for a loss
CountType_BreakEvenAsLoss(day_trades, t) ==
    Cardinality({i \in DOMAIN day_trades :
                     \/ day_trades[i].type = t
                     \/ t = "L" /\ day_trades[i].type = "BE"})

\* sum(1 for trade in day_trades if trade['type'] == t)
CountType(day_trades, t) ==
    Cardinality({i \in DOMAIN day_trades : day_trades[i].type = t})

\* a sum that forgets the filter on the trade type
RECURSIVE SumR_AnyType(_, _)
SumR_AnyType(day_trades, t) ==
    IF day_trades = <<>> THEN RInt(0)
    ELSE RAdd(ToRat(Head(day_trades).r_multiple),
              SumR_AnyType(Tail(day_trades), t))

\* sum(trade['r_multiple'] for trade in day_trades if trade['type'] == t)
RECURSIVE SumR(_, _)
SumR(day_trades, t) ==
    IF day_trades = <<>> THEN RInt(0)
    ELSE IF Head(day_trades).type = t
         THEN RAdd(ToRat(Head(day_trades).r_multiple), SumR(Tail(day_trades), t))
         ELSE SumR(Tail(day_trades), t)

\* lines 142-151: the signed R of one trade in the master list
SignedR(trade) ==
    IF trade.type = "W" THEN ToRat(trade.r_multiple)
    ELSE IF trade.type = "L" THEN RNeg(ToRat(trade.r_multiple))
    ELSE RInt(0)

\* lines 155 and 228: the win rate from a number of wins and of losses
WinRate(wins, losses) ==
    IF wins + losses > 0
    THEN RMul(Rat(wins, wins + losses), RInt(100))
    ELSE RInt(0)

\* a profit factor whose sentinel is 0 in every case without losses
ProfitFactor_ZeroSentinel(r_won, r_lost) ==
    IF RGt(r_lost, RInt(0)) THEN RDiv(r_won, r_lost) ELSE RInt(0)

\* line 232
ProfitFactor(r_won, r_lost) ==
    IF RGt(r_lost, RInt(0)) THEN RDiv(r_won, r_lost) ELSE Infinity

\* lines 234-235: an average R, 0 without trades of that kind
AvgR(r_sum, count) == IF count > 0 THEN RDiv(r_sum, RInt(count)) ELSE RInt(0)

\* line 236
AvgRiskReward(avg_win_r, avg_loss_r) ==
    IF RGt(avg_loss_r, RInt(0)) THEN RDiv(avg_win_r, avg_loss_r) ELSE Infinity

\* line 257
Expectancy(win_rate, avg_win_r, avg_loss_r) ==
    RSub(RMul(RDiv(win_rate, RInt(100)), avg_win_r),
         RMul(RDiv(RSub(RInt(100), win_rate), RInt(100)), avg_loss_r))

\* a walk that keeps the greatest percentage by itself, apart from the
\* greatest amount
RECURSIVE DrawdownWalk_GreatestPct(_, _, _, _)
DrawdownWalk_GreatestPct(curve, peak, max_drawdown_amount, max_drawdown_pct) ==
    IF curve = <<>>
    THEN [amount |-> max_drawdown_amount, pct |-> max_drawdown_pct]
    ELSE LET equity   == Head(curve)
             pk       == IF RGt(equity, peak) THEN equity ELSE peak
             drawdown == RSub(pk, equity)
             pct      == IF RGt(pk, RInt(0))
                         THEN RMul(RDiv(drawdown, pk), RInt(100))
                         ELSE RInt(0)
         IN  DrawdownWalk_GreatestPct(Tail(curve), pk,
                 IF RGt(drawdown, max_drawdown_amount)
                 THEN drawdown ELSE max_drawdown_amount,
                 IF RGt(pct, max_drawdown_pct) THEN pct ELSE max_drawdown_pct)

\* a walk that keeps the drawdown of the last point instead of the greatest
RECURSIVE DrawdownWalk_LastPoint(_, _, _, _)
DrawdownWalk_LastPoint(curve, peak, max_drawdown_amount, max_drawdown_pct) ==
    IF curve = <<>>
    THEN [amount |-> max_drawdown_amount, pct |-> max_drawdown_pct]
    ELSE LET equity   == Head(curve)
             pk       == IF RGt(equity, peak) THEN equity ELSE peak
             drawdown == RSub(pk, equity)
             pct      == IF RGt(pk, RInt(0))
                         THEN RMul(RDiv(drawdown, pk), RInt(100))
                         ELSE RInt(0)
         IN  DrawdownWalk_LastPoint(Tail(curve), pk, drawdown, pct)

\* lines 244-254: the walk over equity_curve[1:], from a peak and the
\* maximum drawdown found so far
RECURSIVE DrawdownWalk(_, _, _, _)
DrawdownWalk(curve, peak, max_drawdown_amount, max_drawdown_pct) ==
    IF curve = <<>>
    THEN [amount |-> max_drawdown_amount, pct |-> max_drawdown_pct]
    ELSE LET equity   == Head(curve)
             pk       == IF RGt(equity, peak) THEN equity ELSE peak
             drawdown == RSub(pk, equity)
             pct      == IF RGt(pk, RInt(0))
                         THEN RMul(RDiv(drawdown, pk), RInt(100))
                         ELSE RInt(0)
         IN  IF RGt(drawdown, max_drawdown_amount)
             THEN DrawdownWalk(Tail(curve), pk, drawdown, pct)
             ELSE DrawdownWalk(Tail(curve), pk, max_drawdown_amount,
                               max_drawdown_pct)

\* lines 241-254
MaxDrawdown(curve) ==
    IF Len(curve) > 1
    THEN DrawdownWalk(Tail(curve), curve[1], RInt(0), RInt(0))
    ELSE [amount |-> RInt(0), pct |-> RInt(0)]

\* what analyze_trades leaves when (r - avg) ** 2 raises
OverflowError == [status |-> "OverflowError"]

\* lines 262-263 and 270-271: the ratio of the mean avg to the population
\* standard deviation of the samples around it, times a factor, on floats.
\* A deviation whose square is out of range raises OverflowError; the
\* standard deviation is 0 exactly when every sample equals avg (r - avg is
\* 0 only for r = avg), and the metric is then 0; so is a quotient whose
\* mean is 0.  Any other quotient is kept as a term over its samples.
RatioAround(samples, avg, name) ==
    IF \E i \in DOMAIN samples : FSquaredDifferenceOverflows(samples[i], avg)
    THEN OverflowError
    ELSE IF \A i \in DOMAIN samples : samples[i] = avg
    THEN RInt(0)
    ELSE IF avg = FZero THEN RInt(0)
    ELSE [metric |-> name, samples |-> samples]

\* lines 260-273: with fewer than two samples the metric is 0; otherwise it
\* is the ratio around the rounded sum divided by the count
RatioToDeviation(samples, name) ==
    IF Len(samples) > 1
    THEN RatioAround(samples, FDivInt(FSum(samples), Len(samples)), name)
    ELSE RInt(0)

-----------------------------------------------------------------------------
(* Specification SpecAnalyze: analyze_trades over a day sequence.  The     *)
(* loop of lines 102-224 reads the days one at a time and never looks      *)
(* ahead, so the sequence is given to it a day at a time: ProcessDay is    *)
(* one pass of the loop body on the next day, Finish is the code after the *)
(* loop on the days consumed so far.                                       *)

R(k) == Float(FALSE, k, 0)

AnalysisTradeLists ==
    { <<>>,
      <<Trade("W", R(2)), Trade("L", R(1))>>,
      <<Trade("W", R(1))>>,
      <<Trade("W", R(4))>>,
      <<Trade("L", R(1))>>,
      <<Trade("BE", Zero)>>,
      <<Trade("W", R(1)), Trade("L", R(1))>>,
      <<Trade("L", R(2)), Trade("BE", Zero)>>,
      <<Trade("L", Float(TRUE, 1, 0))>> }

Friday == StrfDate(2024, 3, 15)

AnalysisDates ==
    { StrfDate(2023, 1, 30), StrfDate(2024, 3, 16), <<"n", "/", "a">> }

\* the trades and date of a day; its number is given when it is appended
AnalysisDays ==
    {[date |-> Friday, trades |-> t] : t \in AnalysisTradeLists}
        \cup {[date |-> d, trades |-> <<Trade("W", R(1))>>] : d \in AnalysisDates}

RiskConfigs ==
    { [initial_balance |-> 25000, risk_amount |-> 250],
      [initial_balance |-> 100, risk_amount |-> 50],
      [initial_balance |-> 0, risk_amount |-> -50] }

WeekdayKeys == {"Monday", "Tuesday", "Wednesday", "Thursday", "Friday"}

\* lines 68-99: the state of analyze_trades before the loop
InitAnalyze ==
    /\ pc = "loop"
    /\ \E c \in RiskConfigs :
           /\ initial_balance = RInt(c.initial_balance)
           /\ risk_amount = RInt(c.risk_amount)
    /\ trades_data = <<>>
    /\ total_trades = 0 /\ total_wins = 0 /\ total_losses = 0
    /\ total_breakeven = 0
    /\ total_r_won = RInt(0) /\ total_r_lost = RInt(0)
    /\ daily_results = <<>>
    /\ current_balance = initial_balance
    /\ peak_balance = initial_balance
    /\ equity_curve = <<initial_balance>>
    /\ daily_returns = <<>>
    /\ current_win_streak = 0 /\ current_loss_streak = 0
    /\ max_win_streak = 0 /\ max_loss_streak = 0
    /\ day_of_week_performance = [d \in WeekdayKeys |-> <<>>]
    /\ week_of_month_performance = [w \in 1..5 |-> <<>>]
    /\ month_performance = [m \in 1..12 |-> <<>>]
    /\ all_trade_r = <<>>
    /\ results = NotRun
    /\ ParseIdle
    /\ FileIdle
    /\ JournalIdle

\* a streak update that takes a flat day for the end of both streaks
UpdateStreaks_FlatResets(day_net_r, streaks) ==
    IF RGt(day_net_r, RInt(0))
    THEN [streaks EXCEPT
              !.current_win_streak = @ + 1,
              !.current_loss_streak = 0,
              !.max_win_streak =
                  IF streaks.current_win_streak + 1 > @
                  THEN streaks.current_win_streak + 1 ELSE @]
    ELSE IF RGt(RInt(0), day_net_r)
    THEN [streaks EXCEPT
              !.current_loss_streak = @ + 1,
              !.current_win_streak = 0,
              !.max_loss_streak =
                  IF streaks.current_loss_streak + 1 > @
                  THEN streaks.current_loss_streak + 1 ELSE @]
    ELSE [streaks EXCEPT !.current_win_streak = 0, !.current_loss_streak = 0]

\* a streak update that never sets the opposite streak back to 0
UpdateStreaks_NoReset(day_net_r, streaks) ==
    IF RGt(day_net_r, RInt(0))
    THEN [streaks EXCEPT
              !.current_win_streak = @ + 1,
              !.max_win_streak =
                  IF streaks.current_win_streak + 1 > @
                  THEN streaks.current_win_streak + 1 ELSE @]
    ELSE IF RGt(RInt(0), day_net_r)
    THEN [streaks EXCEPT
              !.current_loss_streak = @ + 1,
              !.max_loss_streak =
                  IF streaks.current_loss_streak + 1 > @
                  THEN streaks.current_loss_streak + 1 ELSE @]
    ELSE streaks

\* a streak update in which a day of negative net R leaves the win streak
\* running
UpdateStreaks_LossKeepsWinStreak(day_net_r, streaks) ==
    IF RGt(day_net_r, RInt(0))
    THEN [streaks EXCEPT
              !.current_win_streak = @ + 1,
              !.current_loss_streak = 0,
              !.max_win_streak =
                  IF streaks.current_win_streak + 1 > @
                  THEN streaks.current_win_streak + 1 ELSE @]
    ELSE IF RGt(RInt(0), day_net_r)
    THEN [streaks EXCEPT
              !.current_loss_streak = @ + 1,
              !.max_loss_streak =
                  IF streaks.current_loss_streak + 1 > @
                  THEN streaks.current_loss_streak + 1 ELSE @]
    ELSE streaks

\* lines 173-184: the four streak counters after a day of net R day_net_r
UpdateStreaks(day_net_r, streaks) ==
    IF RGt(day_net_r, RInt(0))
    THEN [streaks EXCEPT
              !.current_win_streak = @ + 1,
              !.current_loss_streak = 0,
              !.max_win_streak =
                  IF streaks.current_win_streak + 1 > @
                  THEN streaks.current_win_streak + 1 ELSE @]
    ELSE IF RGt(RInt(0), day_net_r)
    THEN [streaks EXCEPT
              !.current_loss_streak = @ + 1,
              !.current_win_streak = 0,
              !.max_loss_streak =
                  IF streaks.current_loss_streak + 1 > @
                  THEN streaks.current_loss_streak + 1 ELSE @]
    ELSE streaks

\* lines 102-224: the loop body on one day
ProcessDay(day_number, day_date, day_trades) ==
    LET cal           == CalendarFields(day_date)
        day_wins      == CountType(day_trades, "W")
        day_losses    == CountType(day_trades, "L")
        day_breakeven == CountType(day_trades, "BE")
        day_r_won     == SumR(day_trades, "W")
        day_r_lost    == SumR(day_trades, "L")
        day_net_r     == RSub(day_r_won, day_r_lost)
        day_win_rate  == WinRate(day_wins, day_losses)
        day_pnl       == RMul(day_net_r, risk_amount)
        previous_balance == current_balance
        new_balance   == RAdd(current_balance, day_pnl)
    IN  /\ pc = "loop"
        /\ trades_data' = Append(trades_data,
                                 DayRecord(day_number, day_date, day_trades))
        /\ all_trade_r' =
               all_trade_r \o [i \in DOMAIN day_trades |->
                                   FromRat(SignedR(day_trades[i]))]
        /\ current_balance' = new_balance
        /\ peak_balance' =
               IF RGt(new_balance, peak_balance) THEN new_balance
               ELSE peak_balance
        /\ daily_returns' =
               IF RGt(previous_balance, RInt(0))
               THEN Append(daily_returns,
                           FromRat(RDiv(day_pnl, previous_balance)))
               ELSE daily_returns
        /\ LET streaks == UpdateStreaks(day_net_r,
                                         [current_win_streak |-> current_win_streak,
                                          current_loss_streak |-> current_loss_streak,
                                          max_win_streak |-> max_win_streak,
                                          max_loss_streak |-> max_loss_streak])
           IN  /\ current_win_streak' = streaks.current_win_streak
               /\ current_loss_streak' = streaks.current_loss_streak
               /\ max_win_streak' = streaks.max_win_streak
               /\ max_loss_streak' = streaks.max_loss_streak
        /\ day_of_week_performance' =
               IF cal.day_of_week \in DOMAIN day_of_week_performance
               THEN [day_of_week_performance EXCEPT
                         ![cal.day_of_week] = Append(@, day_net_r)]
               ELSE day_of_week_performance
        /\ week_of_month_performance' =
               IF cal.week_of_month # None
                  /\ cal.week_of_month \in DOMAIN week_of_month_performance
               THEN [week_of_month_performance EXCEPT
                         ![cal.week_of_month] = Append(@, day_net_r)]
               ELSE week_of_month_performance
        /\ month_performance' =
               IF cal.month # None /\ cal.month \in DOMAIN month_performance
               THEN [month_performance EXCEPT ![cal.month] = Append(@, day_net_r)]
               ELSE month_performance
        /\ equity_curve' = Append(equity_curve, new_balance)
        /\ daily_results' = Append(daily_results,
               [day |-> day_number, date |-> day_date,
                day_of_week |-> cal.day_of_week,
                week_of_month |-> cal.week_of_month, month |-> cal.month,
                num_trades |-> Len(day_trades), wins |-> day_wins,
                losses |-> day_losses, breakeven |-> day_breakeven,
                r_won |-> day_r_won, r_lost |-> day_r_lost,
                net_r |-> day_net_r, win_rate |-> day_win_rate,
                daily_pnl |-> day_pnl, end_balance |-> new_balance])
        /\ total_trades' = total_trades + Len(day_trades)
        /\ total_wins' = total_wins + day_wins
        /\ total_losses' = total_losses + day_losses
        /\ total_breakeven' = total_breakeven + day_breakeven
        /\ total_r_won' = RAdd(total_r_won, day_r_won)
        /\ total_r_lost' = RAdd(total_r_lost, day_r_lost)
        /\ UNCHANGED <<pc, configVars, results, parseVars, fileVars, journalVars>>

MonthNames ==
    <<"January", "February", "March", "April", "May", "June", "July",
      "August", "September", "October", "November", "December">>

\* f"Week {week_num}" for the five keys of week_of_month_performance
WeekNames == <<"Week 1", "Week 2", "Week 3", "Week 4", "Week 5">>

\* weekday averages that leave out a weekday without observation
DayOfWeekAvg_ObservedOnly(performance) ==
    [d \in {k \in DOMAIN performance : performance[k] # <<>>} |->
        Mean(performance[d])]

\* lines 277-282: every weekday key, 0 for a weekday without observation
DayOfWeekAvg(performance) ==
    [d \in DOMAIN performance |->
        IF performance[d] # <<>> THEN Mean(performance[d]) ELSE RInt(0)]

\* lines 285-289: the weeks with an observation
WeekOfMonthAvg(performance) ==
    [name \in {WeekNames[w] : w \in {k \in DOMAIN performance :
                                          performance[k] # <<>>}} |->
        Mean(performance[CHOOSE w \in DOMAIN performance : WeekNames[w] = name])]

\* lines 292-301: the months with an observation
MonthAvg(performance) ==
    [name \in {MonthNames[m] : m \in {k \in DOMAIN performance :
                                          performance[k] # <<>>}} |->
        Mean(performance[CHOOSE m \in DOMAIN performance : MonthNames[m] = name])]

\* overall metrics whose net_pnl is the total R, not multiplied by the risk
Overall_PnlWithoutRisk ==
    LET overall_win_rate == WinRate(total_wins, total_losses)
        total_r          == RSub(total_r_won, total_r_lost)
        avg_win_r        == AvgR(total_r_won, total_wins)
        avg_loss_r       == AvgR(total_r_lost, total_losses)
        drawdown         == MaxDrawdown(equity_curve)
    IN  [total_trades |-> total_trades,
         win_rate |-> overall_win_rate,
         total_r |-> total_r,
         profit_factor |-> ProfitFactor(total_r_won, total_r_lost),
         avg_win_r |-> avg_win_r,
         avg_loss_r |-> avg_loss_r,
         avg_risk_reward |-> AvgRiskReward(avg_win_r, avg_loss_r),
         net_pnl |-> total_r,
         final_balance |-> current_balance,
         max_drawdown_pct |-> drawdown.pct,
         max_drawdown_amount |-> drawdown.amount,
         expectancy |-> Expectancy(overall_win_rate, avg_win_r, avg_loss_r),
         max_win_streak |-> max_win_streak,
         max_loss_streak |-> max_loss_streak,
         sharpe_ratio |-> RatioToDeviation(daily_returns, "sharpe"),
         sqn |-> RatioToDeviation(all_trade_r, "sqn"),
         day_of_week_performance |-> DayOfWeekAvg(day_of_week_performance),
         week_of_month_performance |-> WeekOfMonthAvg(week_of_month_performance),
         month_performance |-> MonthAvg(month_performance)]

\* lines 226-328: the overall metrics from the state the loop left
Overall ==
    LET overall_win_rate == WinRate(total_wins, total_losses)
        total_r          == RSub(total_r_won, total_r_lost)
        avg_win_r        == AvgR(total_r_won, total_wins)
        avg_loss_r       == AvgR(total_r_lost, total_losses)
        drawdown         == MaxDrawdown(equity_curve)
    IN  [total_trades |-> total_trades,
         win_rate |-> overall_win_rate,
         total_r |-> total_r,
         profit_factor |-> ProfitFactor(total_r_won, total_r_lost),
         avg_win_r |-> avg_win_r,
         avg_loss_r |-> avg_loss_r,
         avg_risk_reward |-> AvgRiskReward(avg_win_r, avg_loss_r),
         net_pnl |-> RMul(total_r, risk_amount),
         final_balance |-> current_balance,
         max_drawdown_pct |-> drawdown.pct,
         max_drawdown_amount |-> drawdown.amount,
         expectancy |-> Expectancy(overall_win_rate, avg_win_r, avg_loss_r),
         max_win_streak |-> max_win_streak,
         max_loss_streak |-> max_loss_streak,
         sharpe_ratio |-> RatioToDeviation(daily_returns, "sharpe"),
         sqn |-> RatioToDeviation(all_trade_r, "sqn"),
         day_of_week_performance |-> DayOfWeekAvg(day_of_week_performance),
         week_of_month_performance |-> WeekOfMonthAvg(week_of_month_performance),
         month_performance |-> MonthAvg(month_performance)]

\* lines 304-330: the report, unless one of the two ratios has raised
Return(overall, daily) ==
    IF OverflowError \in {overall.sharpe_ratio, overall.sqn}
    THEN OverflowError
    ELSE [status |-> "report", overall |-> overall, daily |-> daily]

\* another day of trades_data: the loop body runs on it
NextDay ==
    /\ Len(trades_data) < MaxDays
    /\ \E d \in AnalysisDays :
           ProcessDay(Len(trades_data) + 1, d.date, d.trades)

\* the end of trades_data: lines 226-330
Finish ==
    /\ pc = "loop"
    /\ results' = Return(Overall, daily_results)
    /\ pc' = "done"
    /\ UNCHANGED <<configVars, loopVars, parseVars, csvVars, journalVars>>

NextAnalyze == NextDay \/ Finish

SpecAnalyze == InitAnalyze /\ [][NextAnalyze]_vars

-----------------------------------------------------------------------------
(* Claims about analyze_trades, checked under SpecAnalyze.  The history    *)
(* is read off trades_data, apart from the counters of the loop.           *)

\* all trades of a day sequence, in order
RECURSIVE HistoryTrades(_)
HistoryTrades(days) ==
    IF days = <<>> THEN <<>> ELSE Head(days).trades \o HistoryTrades(Tail(days))

\* the number of trades of one kind in a trade list
KindCount(trades, kind) ==
    Len(SelectSeq(trades, LAMBDA t : t.type = kind))

\* wins / (wins + losses) * 100 over a trade list, 0 without decided trade
DecidedWinRate(trades) ==
    IF KindCount(trades, "W") + KindCount(trades, "L") = 0 THEN RInt(0)
    ELSE Rat(100 * KindCount(trades, "W"),
             KindCount(trades, "W") + KindCount(trades, "L"))

\* the worked example: 25000 and 250, the days [W2R, L1R] and [W1R]
ExampleRun ==
    /\ pc = "done"
    /\ initial_balance = RInt(25000)
    /\ risk_amount = RInt(250)
    /\ Len(trades_data) = 2
    /\ trades_data[1].trades = <<Trade("W", R(2)), Trade("L", R(1))>>
    /\ trades_data[2].trades = <<Trade("W", R(1))>>

ExampleDays ==
    /\ results.daily[1].net_r = RInt(1)
    /\ results.daily[1].daily_pnl = RInt(250)
    /\ results.daily[1].end_balance = RInt(25250)
    /\ results.daily[2].net_r = RInt(1)
    /\ results.daily[2].daily_pnl = RInt(250)
    /\ results.daily[2].end_balance = RInt(25500)
    /\ results.overall.total_r = RInt(2)
    /\ results.overall.max_drawdown_amount = RInt(0)
    /\ results.overall.max_drawdown_pct = RInt(0)

\* C7 as stated: in the worked example day 1 has net_r 1, daily_pnl 250 and
\* end_balance 25250, day 2 has net_r 1, daily_pnl 250 and end_balance 25500,
\* total_r is 2, the maximum drawdown is 0 and win_rate is 100.
C7_WorkedExample_AsStated ==
    ExampleRun => ExampleDays /\ results.overall.win_rate = RInt(100)

\* C7 amended: the same figures, with win_rate = 2 wins of 3 decided trades
\* = 200/3 (66.67 per cent).
C7_WorkedExample ==
    ExampleRun => ExampleDays /\ results.overall.win_rate = Rat(200, 3)

\* C7 witness: the report of the worked example
C7_Witness == ExampleRun /\ results.status = "report"

\* C8: the overall win_rate is wins / (wins + losses) * 100 over the trades
\* of all days, break-even trades in neither count, and 0 without a decided
\* trade; each day's win_rate is the same quantity over that day's trades.
C8_WinRate ==
    pc = "done"
        => /\ results.overall.win_rate = DecidedWinRate(HistoryTrades(trades_data))
           /\ Len(results.daily) = Len(trades_data)
           /\ \A i \in DOMAIN trades_data :
                  results.daily[i].win_rate = DecidedWinRate(trades_data[i].trades)

\* C8 witness: a report over a history with a win, a loss and a break-even
\* trade, and with a day of break-even trades only
C8_Witness ==
    /\ pc = "done"
    /\ KindCount(HistoryTrades(trades_data), "W") > 0
    /\ KindCount(HistoryTrades(trades_data), "L") > 0
    /\ \E i \in DOMAIN trades_data :
           /\ trades_data[i].trades # <<>>
           /\ \A j \in DOMAIN trades_data[i].trades :
                  trades_data[i].trades[j].type = "BE"
    /\ results.overall.win_rate \notin {RInt(0), RInt(100)}

\* a history without a losing trade and with a winning trade of positive
\* magnitude
AllWinHistory ==
    /\ KindCount(HistoryTrades(trades_data), "L") = 0
    /\ \E i \in DOMAIN HistoryTrades(trades_data) :
           /\ HistoryTrades(trades_data)[i].type = "W"
           /\ RGt(ToRat(HistoryTrades(trades_data)[i].r_multiple), RInt(0))

\* C9: for a history with no losing trade and at least one winning trade of
\* positive magnitude the report holds profit_factor = +infinity and
\* avg_risk_reward = +infinity.
C9_AllWinsInfinity ==
    (pc = "done" /\ AllWinHistory)
        => /\ results.status = "report"
           /\ results.overall.profit_factor = Infinity
           /\ results.overall.avg_risk_reward = Infinity

\* C9 witness: the report of a history of two days without a loss
C9_Witness ==
    /\ pc = "done"
    /\ AllWinHistory
    /\ Len(trades_data) >= 2
    /\ results.status = "report"

\* the sum of the magnitudes of the trades of one kind
RECURSIVE KindSum(_, _)
KindSum(trades, kind) ==
    IF trades = <<>> THEN RInt(0)
    ELSE IF Head(trades).type = kind
         THEN RAdd(ToRat(Head(trades).r_multiple), KindSum(Tail(trades), kind))
         ELSE KindSum(Tail(trades), kind)

\* C10: profit_factor and avg_risk_reward are +infinity only when the
\* denominator is zero and the numerator is positive; in any other data gap
\* (empty history, no trades, break-even only, no wins) they are finite.
C10_InfinityOnlyWithPositiveNumerator ==
    pc = "done"
        => /\ results.overall.profit_factor = Infinity
                  => /\ KindSum(HistoryTrades(trades_data), "L") = RInt(0)
                     /\ RGt(KindSum(HistoryTrades(trades_data), "W"), RInt(0))
           /\ results.overall.avg_risk_reward = Infinity
                  => /\ results.overall.avg_loss_r = RInt(0)
                     /\ RGt(results.overall.avg_win_r, RInt(0))

\* the net R of a day record: R won minus R lost
DayNetR(day) == RSub(KindSum(day.trades, "W"), KindSum(day.trades, "L"))

\* a day of positive net R, and a day of negative net R
WinDay(day) == RGt(DayNetR(day), RInt(0))

LossDay(day) == RGt(RInt(0), DayNetR(day))

streakVars ==
    <<current_win_streak, current_loss_streak, max_win_streak, max_loss_streak>>

\* C11: a pass of the loop over a day of net R 0 leaves the current win
\* streak, the current loss streak, the maximum win streak and the maximum
\* loss streak as they were before that day.
C11_FlatDayKeepsStreaks ==
    [][(/\ Len(trades_data') = Len(trades_data) + 1
        /\ DayNetR(trades_data'[Len(trades_data')]) = RInt(0))
           => UNCHANGED streakVars]_vars

\* C11 witness: a win streak of two days that continues across a flat day
\* with trades
C11_Witness ==
    /\ Len(trades_data) = 3
    /\ WinDay(trades_data[1])
    /\ trades_data[2].trades # <<>>
    /\ DayNetR(trades_data[2]) = RInt(0)
    /\ WinDay(trades_data[3])
    /\ current_win_streak = 2
    /\ max_win_streak = 2

\* the greatest of a finite set of naturals, 0 for the empty set
MaxOf(S) == IF S = {} THEN 0 ELSE CHOOSE m \in S : \A n \in S : n <= m

\* the kind of each day of a day sequence: of net R > 0, of net R < 0, flat
DayKinds(days) ==
    [k \in DOMAIN days |->
        IF WinDay(days[k]) THEN "win"
        ELSE IF LossDay(days[k]) THEN "loss" ELSE "flat"]

\* the largest number of days of one kind with no day of the other kind
\* between them
LongestStreak(kinds, kind, other) ==
    MaxOf({Cardinality({k \in w[1]..w[2] : kinds[k] = kind}) :
               w \in {v \in (DOMAIN kinds) \X (DOMAIN kinds) :
                          /\ v[1] <= v[2]
                          /\ \A k \in v[1]..v[2] : kinds[k] # other}})

\* C12: max_win_streak is the largest number of days of net R > 0 with no
\* day of net R < 0 between them, max_loss_streak the same for days of net
\* R < 0; after a day of net R > 0 the current loss streak is 0, after a day
\* of net R < 0 the current win streak is 0.
C12_MaxStreaks ==
    LET kinds == DayKinds(trades_data)
    IN  /\ max_win_streak = LongestStreak(kinds, "win", "loss")
        /\ max_loss_streak = LongestStreak(kinds, "loss", "win")
        /\ (kinds # <<>> /\ kinds[Len(kinds)] = "win")
               => current_loss_streak = 0
        /\ (kinds # <<>> /\ kinds[Len(kinds)] = "loss")
               => current_win_streak = 0
        /\ pc = "done"
               => /\ results.overall.max_win_streak = max_win_streak
                  /\ results.overall.max_loss_streak = max_loss_streak

\* C12 witness: the report after a loss, a win and another loss
C12_Witness ==
    /\ pc = "done"
    /\ Len(trades_data) = 3
    /\ LossDay(trades_data[1])
    /\ WinDay(trades_data[2])
    /\ LossDay(trades_data[3])
    /\ results.overall.max_loss_streak = 1
    /\ results.overall.max_win_streak = 1

\* the equity curve of a report: the initial balance, then the end balance
\* of each day
ReportCurve ==
    <<initial_balance>> \o [i \in DOMAIN results.daily |->
                                results.daily[i].end_balance]

\* the greatest element of a non-empty set of rationals
RMax(S) == CHOOSE m \in S : \A x \in S : ~RGt(x, m)

\* the running peak, the drawdown and its percentage at point i of a curve
PeakAt(curve, i) == RMax({curve[k] : k \in 1..i})

DrawdownAt(curve, i) == RSub(PeakAt(curve, i), curve[i])

DrawdownPctAt(curve, i) ==
    IF RGt(PeakAt(curve, i), RInt(0))
    THEN RMul(RDiv(DrawdownAt(curve, i), PeakAt(curve, i)), RInt(100))
    ELSE RInt(0)

\* the first point of a curve where the drawdown is greatest
DeepestPoint(curve) ==
    LET drawdown == [i \in DOMAIN curve |-> DrawdownAt(curve, i)]
    IN  CHOOSE i \in DOMAIN curve :
            /\ \A k \in DOMAIN curve : ~RGt(drawdown[k], drawdown[i])
            /\ \A k \in 1..(i - 1) : drawdown[k] # drawdown[i]

\* C13: max_drawdown_amount is the greatest running peak minus equity over
\* the points of the equity curve, and max_drawdown_pct is
\* drawdown / peak * 100 (0 for a peak <= 0) at the point where that
\* greatest amount is attained, not the greatest percentage by itself.
C13_MaxDrawdown ==
    pc = "done"
        => LET curve   == ReportCurve
               deepest == DeepestPoint(curve)
           IN  /\ results.overall.max_drawdown_amount =
                      DrawdownAt(curve, deepest)
               /\ results.overall.max_drawdown_pct =
                      DrawdownPctAt(curve, deepest)

\* C13 witness: a report whose max_drawdown_pct is below the percentage of
\* another point of the curve
C13_Witness ==
    /\ pc = "done"
    /\ RGt(results.overall.max_drawdown_amount, RInt(0))
    /\ \E i \in DOMAIN ReportCurve :
           RGt(DrawdownPctAt(ReportCurve, i), results.overall.max_drawdown_pct)

\* C14: when the loop takes another day, the maximum drawdown of the
\* longer equity curve is at least that of the shorter one and the running
\* peak does not decrease; an end balance above every earlier point becomes
\* the peak and leaves the maximum drawdown as it was.
C14_DrawdownMonotone ==
    [][Len(trades_data') = Len(trades_data) + 1
           => /\ ~RGt(MaxDrawdown(equity_curve).amount,
                      MaxDrawdown(equity_curve').amount)
              /\ ~RGt(peak_balance, peak_balance')
              /\ peak_balance' = PeakAt(equity_curve', Len(equity_curve'))
              /\ RGt(current_balance', peak_balance)
                     => /\ peak_balance' = current_balance'
                        /\ MaxDrawdown(equity_curve') = MaxDrawdown(equity_curve)]_vars

\* C14 witness: a third day that ends above every earlier point, after a
\* drawdown
C14_Witness ==
    /\ Len(trades_data) = 3
    /\ RGt(MaxDrawdown(equity_curve).amount, RInt(0))
    /\ RGt(equity_curve[4], PeakAt(equity_curve, 3))
    /\ peak_balance = equity_curve[4]

\* the days of a report that fall in a weekday, a week or a month
DaysOn(field, value) ==
    {i \in DOMAIN results.daily : results.daily[i][field] = value}

\* C15: in every report day_of_week_performance has exactly the keys Monday
\* to Friday, with 0 for a weekday without observation, while
\* week_of_month_performance and month_performance hold a key exactly for
\* the weeks 1..5 and months 1..12 in which a day was recorded.
C15_BucketKeys ==
    pc = "done"
        => /\ DOMAIN results.overall.day_of_week_performance =
                  {"Monday", "Tuesday", "Wednesday", "Thursday", "Friday"}
           /\ \A d \in DOMAIN results.overall.day_of_week_performance :
                  DaysOn("day_of_week", d) = {}
                      => results.overall.day_of_week_performance[d] = RInt(0)
           /\ DOMAIN results.overall.week_of_month_performance =
                  {WeekNames[w] : w \in {k \in 1..5 :
                                             DaysOn("week_of_month", k) # {}}}
           /\ DOMAIN results.overall.month_performance =
                  {MonthNames[m] : m \in {k \in 1..12 :
                                              DaysOn("month", k) # {}}}

\* C15 witness: a report over days of two months, with a weekday without
\* observation and a single week key
C15_Witness ==
    /\ pc = "done"
    /\ Cardinality(DOMAIN results.overall.month_performance) = 2
    /\ Cardinality(DOMAIN results.overall.week_of_month_performance) = 1
    /\ DaysOn("day_of_week", "Friday") # {}
    /\ DaysOn("day_of_week", "Tuesday") = {}
    /\ results.overall.day_of_week_performance["Tuesday"] = RInt(0)

\* the least w with a <= 7 * w, for a in 1..42: ceil(a / 7)
CeilSevenths(a) == CHOOSE w \in 1..6 : 7 * (w - 1) < a /\ a <= 7 * w

\* C16: for every day with a valid calendar date the week_of_month of the
\* daily results is ceil((day of month + weekday index of the first day of
\* the month, Monday = 0) / 7), and it lies in 1..5.
C16_WeekOfMonth ==
    \A i \in DOMAIN daily_results :
        LET date_obj == Strptime(daily_results[i].date)
        IN  date_obj.ok
                => /\ daily_results[i].week_of_month =
                          CeilSevenths(date_obj.day
                                       + Weekday(date_obj.year, date_obj.month, 1))
                   /\ daily_results[i].week_of_month \in 1..5

\* the number of observations in the buckets of a map
RECURSIVE Observations(_)
Observations(performance) ==
    IF DOMAIN performance = {} THEN 0
    ELSE LET k == CHOOSE x \in DOMAIN performance : TRUE
         IN  Len(performance[k])
                 + Observations([x \in DOMAIN performance \ {k} |->
                                     performance[x]])

\* the days whose date parses
ParseableDays == {i \in DOMAIN trades_data : Strptime(trades_data[i].date).ok}

\* C17: for each of the three maps (weekday, week of month, month) the
\* number of bucketed observations equals the number of days with a
\* parseable date: no such day is left out of a map.
C17_EveryDayBucketed ==
    /\ Observations(day_of_week_performance) = Cardinality(ParseableDays)
    /\ Observations(week_of_month_performance) = Cardinality(ParseableDays)
    /\ Observations(month_performance) = Cardinality(ParseableDays)

\* the day the loop has just taken, in the state after the step
NewDay == trades_data'[Len(trades_data')]

\* C18: a day whose date does not parse gets day_of_week "Unknown" and no
\* week and no month in the daily results, enters no time bucket, and adds
\* to the trade counts, the R sums, the balance, the equity curve, the
\* streaks and the per-trade R list what its trades alone determine.
C18_UnparseableDate ==
    [][(/\ Len(trades_data') = Len(trades_data) + 1
        /\ ~Strptime(NewDay.date).ok)
           => /\ daily_results'[Len(daily_results')].day_of_week = "Unknown"
              /\ daily_results'[Len(daily_results')].week_of_month = None
              /\ daily_results'[Len(daily_results')].month = None
              /\ UNCHANGED <<day_of_week_performance,
                             week_of_month_performance, month_performance>>
              /\ total_trades' = total_trades + Len(NewDay.trades)
              /\ total_wins' = total_wins + KindCount(NewDay.trades, "W")
              /\ total_losses' = total_losses + KindCount(NewDay.trades, "L")
              /\ total_breakeven' =
                     total_breakeven + KindCount(NewDay.trades, "BE")
              /\ total_r_won' = RAdd(total_r_won, KindSum(NewDay.trades, "W"))
              /\ total_r_lost' = RAdd(total_r_lost, KindSum(NewDay.trades, "L"))
              /\ current_balance' =
                     RAdd(current_balance, RMul(DayNetR(NewDay), risk_amount))
              /\ equity_curve' = Append(equity_curve, current_balance')
              /\ Len(all_trade_r') = Len(all_trade_r) + Len(NewDay.trades)
              /\ WinDay(NewDay)
                     => /\ current_win_streak' = current_win_streak + 1
                        /\ current_loss_streak' = 0
              /\ LossDay(NewDay)
                     => /\ current_loss_streak' = current_loss_streak + 1
                        /\ current_win_streak' = 0]_vars

\* C18 witness: a report over a day with a valid date and a day without,
\* the latter counted in the totals and in the win streak
C18_Witness ==
    /\ pc = "done"
    /\ results.status = "report"
    /\ Len(trades_data) = 2
    /\ Strptime(trades_data[1].date).ok
    /\ ~Strptime(trades_data[2].date).ok
    /\ results.daily[2].day_of_week = "Unknown"
    /\ results.overall.total_trades = Len(HistoryTrades(trades_data))
    /\ results.overall.max_win_streak = 2


-----------------------------------------------------------------------------
(* Specification SpecSqn: analyze_trades on a history of one day whose     *)
(* trades carry binary64 magnitudes, among them one that only a float can  *)
(* hold.  The call is one step.  initial_balance is 0, so line 169 records *)
(* no daily return.  The step follows the trade counts, the per-trade R    *)
(* list and the two ratios computed from the samples; the R sums, the      *)
(* balance and the metrics computed from them are floats that no line      *)
(* before 270 can raise on, and they keep their values of before the loop. *)

MaxTrades == 3

\* float("0.1"), float("1") and float of the 181 digits of 2 ** 600, as
\* line 44 of parse_trade_data produces them
SqnMagnitudes == {FromRat(Rat(1, 10)), FromRat(RInt(1)), FPow2(600)}

SqnTrades ==
    {Trade(t, r) : t \in {"W", "L"}, r \in SqnMagnitudes}
        \cup {Trade("BE", FZero)}

\* lines 142-151 on floats: the signed R of one trade in the master list
SignedFloat(trade) ==
    IF trade.type = "W" THEN trade.r_multiple
    ELSE IF trade.type = "L" THEN FNeg(trade.r_multiple)
    ELSE FZero

InitSqn ==
    /\ pc = "start"
    /\ \E day_trades \in SeqsUpTo(SqnTrades, MaxTrades) :
           trades_data = <<DayRecord(1, Friday, day_trades)>>
    /\ initial_balance = RInt(0)
    /\ risk_amount = RInt(-50)
    /\ total_trades = 0 /\ total_wins = 0 /\ total_losses = 0
    /\ total_breakeven = 0
    /\ total_r_won = RInt(0) /\ total_r_lost = RInt(0)
    /\ daily_results = <<>>
    /\ current_balance = initial_balance
    /\ peak_balance = initial_balance
    /\ equity_curve = <<initial_balance>>
    /\ daily_returns = <<>>
    /\ current_win_streak = 0 /\ current_loss_streak = 0
    /\ max_win_streak = 0 /\ max_loss_streak = 0
    /\ day_of_week_performance = [d \in WeekdayKeys |-> <<>>]
    /\ week_of_month_performance = [w \in 1..5 |-> <<>>]
    /\ month_performance = [m \in 1..12 |-> <<>>]
    /\ all_trade_r = <<>>
    /\ results = NotRun
    /\ ParseIdle
    /\ FileIdle
    /\ JournalIdle

\* lines 102-330 on the one day of trades_data
AnalyzeOneDay ==
    LET day_trades    == trades_data[1].trades
        day_wins      == CountType(day_trades, "W")
        day_losses    == CountType(day_trades, "L")
        day_breakeven == CountType(day_trades, "BE")
        trade_r       == [i \in DOMAIN day_trades |-> SignedFloat(day_trades[i])]
        day           == [day |-> trades_data[1].day,
                          date |-> trades_data[1].date,
                          num_trades |-> Len(day_trades), wins |-> day_wins,
                          losses |-> day_losses, breakeven |-> day_breakeven]
    IN  /\ pc = "start"
        /\ all_trade_r' = all_trade_r \o trade_r
        /\ daily_returns' = daily_returns
        /\ daily_results' = Append(daily_results, day)
        /\ total_trades' = total_trades + Len(day_trades)
        /\ total_wins' = total_wins + day_wins
        /\ total_losses' = total_losses + day_losses
        /\ total_breakeven' = total_breakeven + day_breakeven
        /\ results' =
               Return([total_trades |-> total_trades',
                       sharpe_ratio |-> RatioToDeviation(daily_returns', "sharpe"),
                       sqn |-> RatioToDeviation(all_trade_r', "sqn")],
                      daily_results')
        /\ pc' = "done"
        /\ UNCHANGED <<configVars, total_r_won, total_r_lost, current_balance,
                       peak_balance, equity_curve, current_win_streak,
                       current_loss_streak, max_win_streak, max_loss_streak,
                       day_of_week_performance, week_of_month_performance,
                       month_performance, parseVars, csvVars, journalVars>>

NextSqn == AnalyzeOneDay

SpecSqn == InitSqn /\ [][NextSqn]_vars

\* the samples of a list are one and the same value: their standard
\* deviation is 0
AllEqual(samples) ==
    \A i, j \in DOMAIN samples : samples[i] = samples[j]

\* C19: the SQN of a report is exactly 0 when there are fewer than two
\* trades or the per-trade signed R have standard deviation 0, its Sharpe
\* ratio is exactly 0 when there are fewer than two daily returns, and the
\* call ends with a report: neither ratio raises.
C19_RatiosZeroNeverRaise ==
    pc = "done"
        => /\ results.status = "report"
           /\ (Len(all_trade_r) < 2 \/ AllEqual(all_trade_r))
                  => results.overall.sqn = RInt(0)
           /\ Len(daily_returns) < 2 => results.overall.sharpe_ratio = RInt(0)

\* C20: analyze_trades returns a report for every history of well-formed
\* day records: it never ends by raising.
C20_ReturnsReport ==
    pc = "done" => results.status = "report"

-----------------------------------------------------------------------------
(* A further claim about parse_trade_data, checked under Spec *)

\* C25: parse_trade_data never raises: every call ends by returning a list
\* of trades or None, also for a token whose number part is only a sign or
\* only a dot.
C25_ParseNeverRaises ==
    pc = "done" => parsed.status \in {"list", "None"}

-----------------------------------------------------------------------------
(* Further claims about analyze_trades, checked under SpecAnalyze *)

\* C30: with a positive initial_balance and a positive risk_amount, the
\* report has max_drawdown_amount >= 0 and 0 <= max_drawdown_pct <= 100, also
\* when losses take the balance to zero or below.
C30_DrawdownBounds ==
    (/\ pc = "done"
     /\ RGt(initial_balance, RInt(0))
     /\ RGt(risk_amount, RInt(0)))
        => /\ ~RGt(RInt(0), results.overall.max_drawdown_amount)
           /\ ~RGt(RInt(0), results.overall.max_drawdown_pct)
           /\ ~RGt(results.overall.max_drawdown_pct, RInt(100))

\* the sum of the net R of the daily records 1..n
RECURSIVE NetRUpTo(_, _)
NetRUpTo(daily, n) ==
    IF n = 0 THEN RInt(0) ELSE RAdd(NetRUpTo(daily, n - 1), daily[n].net_r)

\* C23: the report has one daily record per input day, in input order;
\* each day's daily_pnl is its net R times risk_amount and its end_balance
\* the end balance of the day before (initial_balance for the first day)
\* plus daily_pnl; total_r is the sum of the daily net R, net_pnl is total_r
\* times risk_amount, and final_balance is initial_balance plus net_pnl and
\* the end balance of the last day (initial_balance without days).
C23_BalanceAccounting ==
    pc = "done"
        => LET daily   == results.daily
               overall == results.overall
               n       == Len(daily)
           IN  /\ n = Len(trades_data)
               /\ \A i \in 1..n :
                      /\ daily[i].day = trades_data[i].day
                      /\ daily[i].net_r = DayNetR(trades_data[i])
                      /\ daily[i].daily_pnl = RMul(daily[i].net_r, risk_amount)
                      /\ daily[i].end_balance =
                             RAdd(IF i = 1 THEN initial_balance
                                  ELSE daily[i - 1].end_balance,
                                  daily[i].daily_pnl)
               /\ overall.total_r = NetRUpTo(daily, n)
               /\ overall.net_pnl = RMul(overall.total_r, risk_amount)
               /\ overall.final_balance = RAdd(initial_balance, overall.net_pnl)
               /\ overall.final_balance =
                      IF n = 0 THEN initial_balance ELSE daily[n].end_balance

\* C23 witness: a report over a winning, a losing and a flat day, with a
\* final balance away from the initial balance
C23_Witness ==
    /\ pc = "done"
    /\ Len(results.daily) = 3
    /\ RGt(results.daily[1].daily_pnl, RInt(0))
    /\ RGt(RInt(0), results.daily[2].daily_pnl)
    /\ results.daily[3].daily_pnl = RInt(0)
    /\ results.daily[3].end_balance = results.overall.final_balance
    /\ results.overall.final_balance # initial_balance

\* C29: at every step of the pass over the days, at most one of the current
\* win streak and the current loss streak is not 0, each current streak is
\* between 0 and its maximum, the two maxima together do not exceed the
\* number of days processed, and no step lowers a maximum.
C29_StreakInvariants ==
    /\ [](/\ current_win_streak = 0 \/ current_loss_streak = 0
          /\ 0 <= current_win_streak /\ current_win_streak <= max_win_streak
          /\ 0 <= current_loss_streak /\ current_loss_streak <= max_loss_streak
          /\ max_win_streak + max_loss_streak <= Len(trades_data))
    /\ [][/\ max_win_streak' >= max_win_streak
          /\ max_loss_streak' >= max_loss_streak]_vars

\* C29 witness: three days processed, a win streak of two ended by a loss
C29_Witness ==
    /\ pc = "loop"
    /\ Len(trades_data) = 3
    /\ max_win_streak = 2
    /\ current_win_streak = 0
    /\ current_loss_streak = 1
    /\ max_loss_streak = 1

-----------------------------------------------------------------------------
(* json.dumps and json.loads on the three values database.py stores as     *)
(* text: a list of trade dicts, a list of rule indexes, a list of rule     *)
(* texts.  dumps separates items by ", " and a key from its value by ": ". *)
(* A rule text is taken from letters, which dumps writes between quotes    *)
(* as they are.                                                            *)

\* the items of a list in the text of the list
RECURSIVE JoinItems(_)
JoinItems(items) ==
    IF items = <<>> THEN <<>>
    ELSE IF Len(items) = 1 THEN items[1]
    ELSE items[1] \o <<",", " ">> \o JoinItems(Tail(items))

JsonList(items) == <<"[">> \o JoinItems(items) \o <<"]">>

JsonString(text) == <<"\"">> \o text \o <<"\"">>

\* the characters of a trade type
TypeText(t) == IF t = "BE" THEN <<"B", "E">> ELSE <<t>>

TypeKey == <<"{", "\"", "t", "y", "p", "e", "\"", ":", " ", "\"">>

MultipleKey ==
    <<"\"", ",", " ", "\"", "r", "_", "m", "u", "l", "t", "i", "p", "l", "e",
      "\"", ":", " ">>

\* one trade dict: the r_multiple of a BE trade is the int 0 of line 33, that
\* of a W or L trade a float, written by repr
DumpsTrade(trade) ==
    TypeKey \o TypeText(trade.type) \o MultipleKey
        \o (IF trade.type = "BE" THEN <<"0">> ELSE FloatStr(trade.r_multiple))
        \o <<"}">>

DumpsTrades(trades) == JsonList([i \in DOMAIN trades |-> DumpsTrade(trades[i])])

DumpsInts(indexes) == JsonList([i \in DOMAIN indexes |-> IntStr(indexes[i])])

DumpsStrings(texts) == JsonList([i \in DOMAIN texts |-> JsonString(texts[i])])

JSONDecodeError == [ok |-> FALSE]

Decoded(value) == [ok |-> TRUE, val |-> value]

\* text has the literal lit at position pos
StartsWith(text, pos, lit) ==
    /\ pos + Len(lit) - 1 <= Len(text)
    /\ SubSeq(text, pos, pos + Len(lit) - 1) = lit

\* the first position from pos on where text has the character c, 0 if none
IndexOf(text, pos, c) ==
    IF \E i \in pos..Len(text) : text[i] = c
    THEN CHOOSE i \in pos..Len(text) :
             text[i] = c /\ \A j \in pos..(i - 1) : text[j] # c
    ELSE 0

NumberChars == Digits \cup {"-", "+", ".", "e"}

\* a number: the characters up to the next one that no number has
NumberEnd(text, pos) ==
    IF \E i \in pos..Len(text) : text[i] \notin NumberChars
    THEN CHOOSE i \in pos..Len(text) :
             /\ text[i] \notin NumberChars
             /\ \A j \in pos..(i - 1) : text[j] \in NumberChars
    ELSE Len(text) + 1

\* x times ten to the power k, or to the power -k
Scaled(x, negative, k) ==
    IF negative THEN Float(x.neg, x.mant, x.exp + k)
    ELSE IF k >= x.exp THEN Float(x.neg, x.mant * Pow10(k - x.exp), 0)
    ELSE Float(x.neg, x.mant, x.exp - k)

\* a significand and the text of an exponent, sign first
WithExponent(significand, exponent) ==
    IF ~significand.ok \/ exponent = <<>> THEN JSONDecodeError
    ELSE IF exponent[1] \in {"-", "+"}
    THEN IF Len(exponent) = 1 \/ ~AllDigits(Tail(exponent))
         THEN JSONDecodeError
         ELSE Decoded(Scaled(significand.val, exponent[1] = "-",
                             DigitsToNat(Tail(exponent))))
    ELSE IF ~AllDigits(exponent) THEN JSONDecodeError
    ELSE Decoded(Scaled(significand.val, FALSE, DigitsToNat(exponent)))

\* the number text that has its e at position e, 0 if it has none
FloatAt(text, e) ==
    IF e = 0 THEN PyFloat(text)
    ELSE WithExponent(PyFloat(SubSeq(text, 1, e - 1)),
                      SubSeq(text, e + 1, Len(text)))

\* the float of a number text as repr writes one: digits with a point, or
\* digits and an exponent of ten
JsonFloat(text) == FloatAt(text, IndexOf(text, 1, "e"))

\* the trade of a type text and a number, with the position after its dict
TradeOf(text, typ, num, n1) ==
    IF ~num.ok \/ n1 > Len(text) \/ text[n1] # "}"
       \/ typ \notin {<<"W">>, <<"L">>, <<"B", "E">>}
    THEN JSONDecodeError
    ELSE [ok   |-> TRUE,
          val  |-> Trade(IF typ = <<"B", "E">> THEN "BE" ELSE typ[1], num.val),
          next |-> n1 + 1]

\* the number that begins at position n0 and ends before position n1
NumberOf(text, typ, n0, n1) ==
    TradeOf(text, typ, JsonFloat(SubSeq(text, n0, n1 - 1)), n1)

\* the type text from position t0 to the quote at position t1
TypeOf(text, t0, t1) ==
    IF t1 = 0 \/ ~StartsWith(text, t1, MultipleKey) THEN JSONDecodeError
    ELSE NumberOf(text, SubSeq(text, t0, t1 - 1), t1 + Len(MultipleKey),
                  NumberEnd(text, t1 + Len(MultipleKey)))

\* a trade dict as dumps writes it, keys in the order of the dict
TradeItem(text, pos) ==
    IF ~StartsWith(text, pos, TypeKey) THEN JSONDecodeError
    ELSE TypeOf(text, pos + Len(TypeKey),
                IndexOf(text, pos + Len(TypeKey), "\""))

IntOf(num, n1) ==
    IF ~num.ok THEN JSONDecodeError
    ELSE [ok |-> TRUE, val |-> num.val, next |-> n1]

IntUpTo(text, pos, n1) == IntOf(PyInt(SubSeq(text, pos, n1 - 1)), n1)

IntItem(text, pos) == IntUpTo(text, pos, NumberEnd(text, pos))

StringUpTo(text, pos, q) ==
    IF q = 0 THEN JSONDecodeError
    ELSE [ok |-> TRUE, val |-> SubSeq(text, pos + 1, q - 1), next |-> q + 1]

StringItem(text, pos) ==
    IF pos > Len(text) \/ text[pos] # "\"" THEN JSONDecodeError
    ELSE StringUpTo(text, pos, IndexOf(text, pos + 1, "\""))

\* one item of a list of trade dicts, of ints or of strings: its value and
\* the position after it
Item(kind, text, pos) ==
    IF kind = "trade" THEN TradeItem(text, pos)
    ELSE IF kind = "int" THEN IntItem(text, pos)
    ELSE StringItem(text, pos)

\* the items of a list text from position pos on; AfterItem goes on from
\* the item read there
RECURSIVE LoadsItems(_, _, _, _)
RECURSIVE AfterItem(_, _, _, _)
AfterItem(kind, text, item, items) ==
    IF ~item.ok THEN JSONDecodeError
    ELSE IF StartsWith(text, item.next, <<",", " ">>)
    THEN LoadsItems(kind, text, item.next + 2, Append(items, item.val))
    ELSE IF item.next = Len(text) /\ text[item.next] = "]"
    THEN Decoded(Append(items, item.val))
    ELSE JSONDecodeError

LoadsItems(kind, text, pos, items) ==
    AfterItem(kind, text, Item(kind, text, pos), items)

LoadsList(kind, text) ==
    IF text = <<"[", "]">> THEN Decoded(<<>>)
    ELSE IF text # <<>> /\ text[1] = "[" THEN LoadsItems(kind, text, 2, <<>>)
    ELSE JSONDecodeError

LoadsTrades(text) == LoadsList("trade", text)

LoadsInts(text) == LoadsList("int", text)

LoadsStrings(text) == LoadsList("string", text)

\* a column that holds a text or NULL
SqlNull == [null |-> TRUE, text |-> <<>>]

SqlText(text) == [null |-> FALSE, text |-> text]


-----------------------------------------------------------------------------
(* database.py: each function opens a connection of its own on             *)
(* trading_data.db, so what it sees is the tables and the foreign_keys     *)
(* setting of a new connection.  A function is an operator from the store  *)
(* before the call to the store after it and the value returned.  Of a     *)
(* session row the columns name, created_at and notes are left out: no     *)
(* function modelled here reads them.                                      *)

\* the store as the next call finds it
Db ==
    [trading_sessions |-> trading_sessions,
     trading_days     |-> trading_days,
     sqlite_sequence  |-> sqlite_sequence,
     foreign_keys     |-> foreign_keys]

Result(db, value) == [db |-> db, ret |-> value]

\* lines 84-105: the rules as JSON text unless the list is empty or None,
\* which a caller passes as the empty list; the id is that of AUTOINCREMENT,
\* one more than any id the table ever held
create_trading_session(db, balance, risk_percentage, rules) ==
    LET session_id == db.sqlite_sequence.trading_sessions + 1
        rules_json == IF rules # <<>> THEN SqlText(DumpsStrings(rules))
                      ELSE SqlNull
        row == [id              |-> session_id,
                initial_balance |-> balance,
                risk_percentage |-> risk_percentage,
                trading_rules   |-> rules_json]
    IN  Result([db EXCEPT !.trading_sessions = Append(@, row),
                          !.sqlite_sequence.trading_sessions = session_id],
               session_id)

\* lines 121-139: one INSERT, whatever rows the session has already; with
\* foreign keys enforced the INSERT for a session that does not exist raises
\* and the function returns False
add_trading_day(db, session_id, day_number, date, trades, rules_followed) ==
    LET trades_json == DumpsTrades(trades)
        rules_json  == IF rules_followed # <<>>
                       THEN SqlText(DumpsInts(rules_followed))
                       ELSE SqlNull
        row == [id             |-> db.sqlite_sequence.trading_days + 1,
                session_id     |-> session_id,
                day_number     |-> day_number,
                date           |-> date,
                trades_data    |-> trades_json,
                rules_followed |-> rules_json]
    IN  IF /\ db.foreign_keys
           /\ \A i \in DOMAIN db.trading_sessions :
                  db.trading_sessions[i].id # session_id
        THEN Result(db, FALSE)
        ELSE Result([db EXCEPT !.trading_days = Append(@, row),
                               !.sqlite_sequence.trading_days = row.id],
                    TRUE)

\* the orders in which SELECT ... ORDER BY day_number may give the rows: any
\* order in which day_number never decreases, so each begins with a row of
\* the least day_number
RECURSIVE OrderedByDayNumber(_)
OrderedByDayNumber(rows) ==
    IF rows = <<>> THEN {<<>>}
    ELSE LET first == {i \in DOMAIN rows :
                          \A j \in DOMAIN rows :
                              rows[i].day_number <= rows[j].day_number}
         IN  UNION {{<<rows[i]>> \o rest :
                        rest \in OrderedByDayNumber(
                                     SubSeq(rows, 1, i - 1)
                                         \o SubSeq(rows, i + 1, Len(rows)))} :
                    i \in first}

\* lines 196-200: the rules_followed of a row, the empty list for NULL, the
\* empty text and the text null
RulesOfRow(column) ==
    IF ~column.null /\ column.text # <<>>
       /\ column.text # <<"n", "u", "l", "l">>
    THEN LoadsInts(column.text)
    ELSE Decoded(<<>>)

\* lines 192-202: a row as the dict get_trading_days makes of it
LoadedDay(row, trades, rules) ==
    IF ~trades.ok \/ ~rules.ok THEN JSONDecodeError
    ELSE Decoded([id             |-> row.id,
                  day_number     |-> row.day_number,
                  date           |-> row.date,
                  rules_followed |-> rules.val,
                  trades         |-> trades.val])

\* lines 204-209: the list of the days, the empty list after an exception
\* of json.loads
DaysOrNone(days) ==
    IF \E i \in DOMAIN days : ~days[i].ok THEN <<>>
    ELSE [i \in DOMAIN days |-> days[i].val]

\* lines 190-209 on the rows as the SELECT gave them
ProcessDays(days_raw) ==
    DaysOrNone([i \in DOMAIN days_raw |->
                   LoadedDay(days_raw[i],
                             LoadsTrades(days_raw[i].trades_data),
                             RulesOfRow(days_raw[i].rules_followed))])

\* the lists get_trading_days may return
get_trading_days(db, session_id) ==
    LET OfSession(row) == row.session_id = session_id
    IN  {ProcessDays(days_raw) :
            days_raw \in OrderedByDayNumber(SelectSeq(db.trading_days,
                                                      OfSession))}

\* lines 233-235: the rules of a session row, left as they are when the
\* column is NULL or the empty text
RulesOfSession(column) ==
    IF column.null \/ column.text = <<>> THEN Decoded(<<>>)
    ELSE LoadsStrings(column.text)

SessionDetails(session, rules) ==
    IF ~rules.ok THEN [found |-> FALSE]
    ELSE [found |-> TRUE, session |-> session, trading_rules |-> rules.val]

\* the first row a SELECT found, None (dict(None) raises) if it found none
FetchOne(found) ==
    IF found = <<>> THEN [found |-> FALSE]
    ELSE SessionDetails(found[1], RulesOfSession(found[1].trading_rules))

\* lines 222-243: the row with its rules decoded, None if there is no row
\* or the rules are no JSON text
get_session_details(db, session_id) ==
    LET WithId(row) == row.id = session_id
    IN  FetchOne(SelectSeq(db.trading_sessions, WithId))

\* lines 256-270: the DELETE names table trading_sessions alone; the rows of
\* trading_days go with the session through ON DELETE CASCADE (lines 32-41),
\* which SQLite applies on a connection that enforces foreign keys
delete_trading_session(db, session_id) ==
    LET OtherSession(row) == row.id # session_id
        OfOtherSession(row) == row.session_id # session_id
    IN  Result([db EXCEPT
                   !.trading_sessions = SelectSeq(@, OtherSession),
                   !.trading_days = IF db.foreign_keys
                                    THEN SelectSeq(@, OfOtherSession)
                                    ELSE @],
               TRUE)

\* lines 453-470: the UPDATE of the rules column, the empty list included
set_trading_rules(db, session_id, rules) ==
    Result([db EXCEPT !.trading_sessions =
                [i \in DOMAIN @ |->
                    IF @[i].id = session_id
                    THEN [@[i] EXCEPT !.trading_rules =
                                          SqlText(DumpsStrings(rules))]
                    ELSE @[i]]],
           TRUE)

\* day_data.get('rules_followed', [])
GetRulesFollowed(day_data) ==
    IF "rules_followed" \in DOMAIN day_data THEN day_data.rules_followed
    ELSE <<>>

\* the calls of add_trading_day in the loop of import_from_csv (lines
\* 355-367), which passes the rules_followed of a day on, and of the form
\* that creates a session (Backtest.py lines 682-688), which does not
RECURSIVE AddDays(_, _, _, _)
AddDays(db, session_id, days, pass_rules) ==
    IF days = <<>> THEN db
    ELSE AddDays(add_trading_day(db, session_id, Head(days).day,
                                 Head(days).date, Head(days).trades,
                                 IF pass_rules THEN GetRulesFollowed(Head(days))
                                 ELSE <<>>).db,
                 session_id, Tail(days), pass_rules)

\* lines 341-371: the session is created before the file is read
import_from_csv(db, lines, balance, risk_percentage) ==
    LET created == create_trading_session(db, balance, risk_percentage, <<>>)
        days == load_data(lines)
    IN  IF days.status = "None" \/ days.days = <<>>
        THEN Result(created.db, None)
        ELSE Result(AddDays(created.db, created.ret, days.days, TRUE),
                    created.ret)


-----------------------------------------------------------------------------
(* Specification SpecImport: a file written by save_data, or no file, is   *)
(* imported into an empty store by database.import_from_csv                *)

\* st.session_state.account_balance and risk_percentage as the application
\* starts, the settings a session is created with
AccountBalance == 25000

RiskPercentage == 1

\* the value a database function returned
Value(v) == [status |-> "returned", value |-> v]

\* the store after a call
Commit(db) ==
    /\ trading_sessions' = db.trading_sessions
    /\ trading_days' = db.trading_days
    /\ sqlite_sequence' = db.sqlite_sequence
    /\ foreign_keys' = db.foreign_keys

InitImport == InitCsv

\* import_from_csv on the file, which does not exist before save_data wrote
\* it: open raises and load_data returns None, as for a file without a line
ImportFromCsv ==
    /\ pc \in {"start", "saved"}
    /\ LET call == import_from_csv(Db, csv_file, AccountBalance, RiskPercentage)
       IN  /\ Commit(call.db)
           /\ returned' = Value(call.ret)
    /\ pc' = "imported"
    /\ UNCHANGED <<trades_data, fileVars, parseVars, analyzeVars, sessionVars>>

NextImport == SaveData \/ ImportFromCsv

SpecImport == InitImport /\ [][NextImport]_vars

\* the days of a list that the store holds for the session, by number, date
\* and trades
HoldsEveryDay(db, session_id, days) ==
    \A loaded_days \in get_trading_days(db, session_id) :
        /\ Len(loaded_days) = Len(days)
        /\ \A i \in DOMAIN days :
               \E j \in DOMAIN loaded_days :
                   /\ loaded_days[j].day_number = days[i].day
                   /\ loaded_days[j].date = days[i].date
                   /\ TradesEq(loaded_days[j].trades, days[i].trades)

\* C28: import_from_csv is all-or-nothing: when it returns None the store has
\* no session and no day it did not have before the call; when it returns an
\* id, the session with that id exists and holds every day of the file.
C28_ImportAllOrNothing ==
    [][pc' = "imported" =>
          IF returned'.value = None
          THEN /\ trading_sessions' = trading_sessions
               /\ trading_days' = trading_days
          ELSE /\ get_session_details(Db', returned'.value).found
               /\ HoldsEveryDay(Db', returned'.value, load_data(csv_file).days)]_vars


-----------------------------------------------------------------------------
(* The journal application of Backtest.py.  Each interaction runs the      *)
(* script from its first line with one widget triggered; an action is the  *)
(* handler of that widget together with the pass of the script that        *)
(* follows it.  trades_data is st.session_state.trades_data, the history   *)
(* on screen, and results what the pass shows of the analysis.             *)
(* st.session_state.sessions_list is the table trading_sessions: every     *)
(* handler that changes the table reads the list again (lines 692, 782).   *)
(* The account settings stay as the application starts with them.          *)
(* Specification SpecApp has the handlers of the Trade Analysis tab, with  *)
(* or without a current session; specification SpecJournal has those of   *)
(* the Database Management tab as well.                                    *)

MaxAppDays == 2

MaxSessions == 1

MaxRows == 2

\* the rule texts typed into the rule form
RuleTexts == {<<"a">>, <<"b">>}

\* the texts typed into the day form: a win and a break-even trade, a text
\* without a trade and a text on which float raises
DayInputs == {<<"W", "2", ",", "B", "E">>, <<"x">>, <<"W", "-">>}

DayDates == {Friday}

\* the boxes ticked in the day form: any of those of the rules, rule i of
\* the list having index i - 1
CheckedBoxes == SUBSET {i - 1 : i \in DOMAIN trading_rules}

\* the ascending sequence of the members of a set of numbers
RECURSIVE Ascending(_)
Ascending(S) ==
    IF S = {} THEN <<>>
    ELSE LET least == CHOOSE x \in S : \A y \in S : x <= y
         IN  <<least>> \o Ascending(S \ {least})

\* the exception that ends a pass of the script
KeyError(key, line) == [status |-> "KeyError", key |-> key, line |-> line]

ValueErrorAt(line) == [status |-> "ValueError", line |-> line]

\* the analysis is on screen
Report == [status |-> "report"]

\* lines 213-253: the day list reads day['day'] of every day of the history
\* for the title of its expander before analyze_trades is called, which
\* reads day_data['day'] too (trade_analyzer.py line 103)
Rendered(days) ==
    IF days = <<>> THEN NotRun
    ELSE IF \E i \in DOMAIN days : "day" \notin DOMAIN days[i]
    THEN KeyError("day", 215)
    ELSE Report

\* the pass reaches the expander of day idx and its Remove button
DayListReaches(idx) ==
    \A i \in 1..idx : "day" \in DOMAIN trades_data[i]

\* the pass reaches the Database Management tab (line 624), which comes
\* after the day list and the analysis
ReachesDatabaseTab == DayListReaches(Len(trades_data))

\* the ids of st.session_state.sessions_list
SessionIds == {trading_sessions[i].id : i \in DOMAIN trading_sessions}

\* the store init_db creates, with the foreign_keys setting of the build
EmptyStore(enforced) ==
    [trading_sessions |-> <<>>,
     trading_days     |-> <<>>,
     sqlite_sequence  |-> [trading_sessions |-> 0, trading_days |-> 0],
     foreign_keys     |-> enforced]

\* the application as it starts, on a store
Started(db) ==
    /\ pc = "app"
    /\ trades_data = <<>>
    /\ ParseIdle
    /\ FileIdle
    /\ AnalyzeIdle
    /\ trading_rules = <<>>
    /\ trading_sessions = db.trading_sessions
    /\ trading_days = db.trading_days
    /\ sqlite_sequence = db.sqlite_sequence
    /\ foreign_keys = db.foreign_keys
    /\ returned = NotRun

\* the Trade Analysis tab without a current session, or with the one that
\* the form of lines 664-696 has created empty on the new store
InitApp ==
    \/ /\ Started(EmptyStore(FALSE))
       /\ current_session_id = None
    \/ LET created == create_trading_session(EmptyStore(FALSE), AccountBalance,
                                             RiskPercentage, <<>>)
       IN  /\ Started(created.db)
           /\ current_session_id = created.ret

\* the application as it starts on a new store
InitJournal ==
    /\ Started(EmptyStore(FALSE)) \/ Started(EmptyStore(TRUE))
    /\ current_session_id = None

\* the variables no handler of the application writes
appFrame == <<pc, parseVars, fileVars, configVars, loopVars, returned>>

\* lines 116-133: the rule form
AddRule(new_rule) ==
    /\ new_rule # <<>>
    /\ \A i \in DOMAIN trading_rules : trading_rules[i] # new_rule
    /\ LET existing_rules == Append(trading_rules, new_rule)
       IN  /\ trading_rules' = existing_rules
           /\ IF current_session_id # None
              THEN Commit(set_trading_rules(Db, current_session_id,
                                            existing_rules).db)
              ELSE UNCHANGED dbVars
    /\ results' = Rendered(trades_data)
    /\ UNCHANGED <<trades_data, current_session_id, appFrame>>

\* list.pop(): the last element goes, whatever i
PopAt_Last(list, i) == SubSeq(list, 1, Len(list) - 1)

\* list.pop(i) for an index of the list, counted from 1
PopAt(list, i) == SubSeq(list, 1, i - 1) \o SubSeq(list, i + 1, Len(list))

\* lines 139-152: the delete button of rule i
DeleteRule(i) ==
    /\ i \in DOMAIN trading_rules
    /\ LET existing_rules == PopAt(trading_rules, i)
       IN  /\ trading_rules' = existing_rules
           /\ IF current_session_id # None
              THEN Commit(set_trading_rules(Db, current_session_id,
                                            existing_rules).db)
              ELSE UNCHANGED dbVars
    /\ results' = Rendered(trades_data)
    /\ UNCHANGED <<trades_data, current_session_id, appFrame>>

\* lines 185-191: the day entry of the form
DayData(day_number, date, trades, rules_followed) ==
    [day            |-> day_number,
     date           |-> date,
     trades         |-> trades,
     rules_followed |-> rules_followed]

\* lines 161-207: the day form, submitted with a text and with the boxes of
\* the rules in checked ticked (rule i of the list has index i - 1)
AddTradingDay(date, text, checked) ==
    /\ Len(trades_data) < MaxAppDays
    /\ current_session_id # None => sqlite_sequence.trading_days < MaxRows
    /\ text # <<>>
    /\ LET day_number     == Len(trades_data) + 1
           rules_followed == Ascending(checked)
           trades         == parse_trade_data(text)
       IN  IF trades.status = "ValueError"
           THEN /\ results' = ValueErrorAt(183)
                /\ UNCHANGED <<trades_data, dbVars>>
           ELSE IF trades.status = "None" \/ trades.trades = <<>>
           THEN /\ results' = Rendered(trades_data)
                /\ UNCHANGED <<trades_data, dbVars>>
           ELSE /\ trades_data' =
                       Append(trades_data,
                              DayData(day_number, date, trades.trades,
                                      rules_followed))
                /\ IF current_session_id # None
                   THEN Commit(add_trading_day(Db, current_session_id,
                                               day_number, date, trades.trades,
                                               rules_followed).db)
                   ELSE UNCHANGED dbVars
                /\ results' = Rendered(trades_data')
    /\ UNCHANGED <<sessionVars, appFrame>>

\* the days that remain with the numbers they had, as without the loop of
\* lines 238-239
Renumber_KeepNumbers(days) == days

\* lines 238-239: d['day'] = i + 1 for the days that remain
Renumber(days) ==
    [i \in DOMAIN days |->
        [field \in DOMAIN days[i] \cup {"day"} |->
            IF field = "day" THEN i ELSE days[i][field]]]

\* lines 235-241: the Remove button of the day at position idx, counted
\* from 1; the store is not written
RemoveDay(idx) ==
    /\ idx \in DOMAIN trades_data
    /\ DayListReaches(idx)
    /\ trades_data' = Renumber(PopAt(trades_data, idx))
    /\ results' = Rendered(trades_data')
    /\ UNCHANGED <<sessionVars, dbVars, appFrame>>

\* lines 664-696: the form that creates a session
CreateSession(create_empty, import_rules) ==
    /\ ReachesDatabaseTab
    /\ sqlite_sequence.trading_sessions < MaxSessions
    /\ ~create_empty =>
           sqlite_sequence.trading_days + Len(trades_data) <= MaxRows
    /\ LET rules   == IF import_rules THEN trading_rules ELSE <<>>
           created == create_trading_session(Db, AccountBalance,
                                             RiskPercentage, rules)
       IN  /\ IF ~create_empty /\ trades_data # <<>>
              THEN Commit(AddDays(created.db, created.ret, trades_data,
                                  FALSE))
              ELSE Commit(created.db)
           /\ current_session_id' = created.ret
    /\ results' = Rendered(trades_data)
    /\ UNCHANGED <<trades_data, trading_rules, appFrame>>

\* lines 712-733: the Load Selected Session button
LoadSession(selected) ==
    /\ ReachesDatabaseTab
    /\ selected \in SessionIds
    /\ LET session_details == get_session_details(Db, selected)
       IN  IF session_details.found
           THEN \E session_days \in get_trading_days(Db, selected) :
                    /\ trading_rules' = session_details.trading_rules
                    /\ IF session_days # <<>>
                       THEN /\ trades_data' = session_days
                            /\ current_session_id' = selected
                       ELSE UNCHANGED <<trades_data, current_session_id>>
           ELSE UNCHANGED <<trades_data, sessionVars>>
    /\ results' = Rendered(trades_data')
    /\ UNCHANGED <<dbVars, appFrame>>

\* lines 773-783: the Delete Session button
DeleteSession(selected) ==
    /\ ReachesDatabaseTab
    /\ selected \in SessionIds
    /\ LET deleted == delete_trading_session(Db, selected)
       IN  /\ Commit(deleted.db)
           /\ IF deleted.ret /\ current_session_id = selected
              THEN current_session_id' = None
              ELSE UNCHANGED current_session_id
    /\ results' = Rendered(trades_data)
    /\ UNCHANGED <<trades_data, trading_rules, appFrame>>

AddRuleStep == \E new_rule \in RuleTexts : AddRule(new_rule)

DeleteRuleStep == \E i \in DOMAIN trading_rules : DeleteRule(i)

AddTradingDayStep ==
    \E date \in DayDates, text \in DayInputs :
        \E checked \in CheckedBoxes :
            AddTradingDay(date, text, checked)

RemoveDayStep == \E idx \in 1..MaxAppDays : RemoveDay(idx)

CreateSessionStep ==
    \E create_empty \in BOOLEAN, import_rules \in BOOLEAN :
        CreateSession(create_empty, import_rules)

LoadSessionStep == \E selected \in 1..MaxSessions : LoadSession(selected)

DeleteSessionStep == \E selected \in 1..MaxSessions : DeleteSession(selected)

NextApp ==
    \/ AddRuleStep
    \/ DeleteRuleStep
    \/ AddTradingDayStep
    \/ RemoveDayStep

SpecApp == InitApp /\ [][NextApp]_vars

NextJournal ==
    \/ AddRuleStep
    \/ DeleteRuleStep
    \/ AddTradingDayStep
    \/ RemoveDayStep
    \/ CreateSessionStep
    \/ LoadSessionStep
    \/ DeleteSessionStep

SpecJournal == InitJournal /\ [][NextJournal]_vars


-----------------------------------------------------------------------------
(* Claims about the journal application and its store *)

\* C22: delete_trading_session deletes the session and all of its trading
\* days: after delete_trading_session(id) has returned True,
\* get_trading_days(id) returns no days and no row of trading_days has that
\* session_id.
C22_DeleteRemovesDays ==
    [][\A selected \in SessionIds :
          (/\ DeleteSession(selected)
           /\ delete_trading_session(Db, selected).ret)
              => /\ get_trading_days(Db', selected) = {<<>>}
                 /\ \A i \in DOMAIN trading_days' :
                        trading_days'[i].session_id # selected]_vars


\* C27: the day records that 'Load Selected Session' takes from
\* get_trading_days have the fields the day list and analyze_trades read
\* (day, date, trades), so that the analysis of a loaded session with days
\* shows a report and does not fail on a missing field.
C27_LoadedDaysAnalyzable ==
    [][\A selected \in SessionIds :
          (/\ LoadSession(selected)
           /\ <<>> \notin get_trading_days(Db, selected))
              => /\ \A i \in DOMAIN trades_data' :
                        {"day", "date", "trades"} \subseteq DOMAIN trades_data'[i]
                 /\ results'.status = "report"]_vars


\* the days the store returns for a session are those of a history, by day
\* number and trade list
StoreAgrees(db, session_id, days) ==
    \A session_days \in get_trading_days(db, session_id) :
        /\ Len(session_days) = Len(days)
        /\ \A i \in DOMAIN days :
               /\ session_days[i].day_number = days[i].day
               /\ TradesEq(session_days[i].trades, days[i].trades)

\* C26: while a current session is selected, 'Add Trading Day' and 'Remove
\* Day' keep the days persisted for the session (get_trading_days) equal to
\* the in-memory history in day numbers and trade lists: no two persisted
\* days share a day_number and a removed day is not returned on reload.
C26_StoreAgreesWithHistory ==
    [][(/\ current_session_id # None
        /\ StoreAgrees(Db, current_session_id, trades_data)
        /\ (AddTradingDayStep \/ RemoveDayStep))
           => StoreAgrees(Db', current_session_id, trades_data')]_vars


\* C21: from the empty history, after any sequence of 'Add Trading Day' and
\* 'Remove Day' the day numbers of the history are 1..n in list order, n the
\* number of days.
C21_DayNumbers ==
    \A i \in DOMAIN trades_data : trades_data[i].day = i

\* the second of two days, recorded with the first rule ticked and stored as
\* day 2, is day 1 of the history after the first day was removed
C21_Witness ==
    /\ current_session_id # None
    /\ Len(trading_days) = 2
    /\ trading_days[1].rules_followed = SqlNull
    /\ trading_days[2].day_number = 2
    /\ trading_days[2].rules_followed = SqlText(DumpsInts(<<0>>))
    /\ Len(trades_data) = 1
    /\ trades_data[1].rules_followed = <<0>>
    /\ trades_data[1].day = 1

\* C24: deleting rule i takes it out of the rule list and leaves the
\* rules_followed indexes of the days of the history as they are: an index
\* stored for rule i or a later one is then past the end of the list or
\* names another rule than it did.
C24_StaleRuleIndexes ==
    [][\A i \in DOMAIN trading_rules :
          DeleteRule(i)
              => /\ trades_data' = trades_data
                 /\ Len(trading_rules') = Len(trading_rules) - 1
                 /\ \A k \in DOMAIN trading_rules' :
                        trading_rules'[k] =
                            IF k < i THEN trading_rules[k]
                            ELSE trading_rules[k + 1]
                 /\ \A d \in DOMAIN trades_data :
                        \A r \in DOMAIN trades_data[d].rules_followed :
                            LET rule_idx == trades_data[d].rules_followed[r]
                            IN  rule_idx + 1 >= i
                                    => \/ rule_idx >= Len(trading_rules')
                                       \/ /\ rule_idx < Len(trading_rules)
                                          /\ trading_rules'[rule_idx + 1]
                                                 # trading_rules[rule_idx + 1]]_vars

\* a day recorded with both rules ticked, after one of them was deleted: its
\* index 1 is past the end of the list
C24_Witness ==
    /\ Len(trading_rules) = 1
    /\ \E d \in DOMAIN trades_data :
           trades_data[d].rules_followed = <<0, 1>>

=============================================================================
